---- MODULE Spec2Model ----
(***************************************************************************)
(* Gene Network Quality Agent: the tool registry and its dependency        *)
(* resolver (agent/tool_registry.py), the dynamic controller and its       *)
(* LangGraph loop (agent/dynamic_controller.py, agent/dynamic_graph.py)    *)
(* and the fixed LangGraph loop (agent/graph.py, agent/nodes/controller.py)*)
(***************************************************************************)
EXTENDS Naturals, Integers, Sequences, FiniteSets, TLC

VARIABLES
    tools,            \* ToolRegistry.tools: the definitions in dict (insertion) order
    goals,            \* get_execution_plan: the goals of the last call
    available_data,   \* get_execution_plan: the available_data of the last call
    planres,          \* get_execution_plan: what the last call computed
    graph,            \* which LangGraph runs: "dynamic" (dynamic_graph.py) or "static" (graph.py)
    pc,               \* the node the graph runs next
    state,            \* the state dict threaded through the nodes
    controller,       \* the DynamicController held in state["controller"]
    step,             \* pipeline_executor_node: position in current_pipeline
    attempted,        \* history: the tools attempted in this EXECUTE phase
    outcomes,         \* history: how each of these attempts ended
    pipeline_runs,    \* history: how often the analysis pipeline was started
    raises,           \* history: how many tool functions raised so far
    registered,       \* history: the definition registered last under each name,
                      \* and whether a registration replaced an earlier one
    net,              \* the model dict of a network: its nodes, in dict order
    sim               \* what the simulation functions last returned for net

planvars == <<tools, goals, available_data, planres, registered>>
loopvars == <<graph, pc, state, controller, step, attempted, outcomes, pipeline_runs,
              raises>>
netvars == <<net, sim>>
vars == <<tools, goals, available_data, planres, registered,
          graph, pc, state, controller, step, attempted, outcomes, pipeline_runs,
          raises, net, sim>>

(***************************************************************************)
(* Bounds of the model                                                     *)
(***************************************************************************)
MaxGoals == 2
MaxLongGoals == 21
MaxCallerIterations == 2
MaxRaises == 1

(***************************************************************************)
(* Sequences helpers (Python list operations)                              *)
(***************************************************************************)
InSeq(x, s) == \E i \in 1..Len(s) : s[i] = x

Range(s) == {s[i] : i \in 1..Len(s)}

\* list.remove(x): removes the first occurrence of x
RemoveFirst(s, x) ==
    LET i == CHOOSE k \in 1..Len(s) : s[k] = x /\ \A j \in 1..(k-1) : s[j] # x
    IN  SubSeq(s, 1, i-1) \o SubSeq(s, i+1, Len(s))

SeqsUpTo(S, n) == UNION {[1..k -> S] : k \in 0..n}

(***************************************************************************)
(* ToolDefinition and ToolRegistry                                         *)
(***************************************************************************)
ToolDefinition(n, reqs, outs, prio, en) ==
    [name |-> n, input_requirements |-> reqs, output_provides |-> outs,
     priority |-> prio, enabled |-> en]

NoTool == [name |-> "", input_requirements |-> {}, output_provides |-> {},
           priority |-> 0, enabled |-> FALSE]

\* register_tool appending to a list instead of assigning into the dict
register_tool_append(reg, tool_def) == Append(reg, tool_def)

\* self.tools[tool_def.name] = tool_def: a dict keeps the position of a key
\* that is overwritten and appends a new key at the end
register_tool(reg, tool_def) ==
    IF \E i \in 1..Len(reg) : reg[i].name = tool_def.name
    THEN [i \in 1..Len(reg) |->
            IF reg[i].name = tool_def.name THEN tool_def ELSE reg[i]]
    ELSE Append(reg, tool_def)

\* self.tools.get(name)
get_tool(reg, name) ==
    IF \E i \in 1..Len(reg) : reg[i].name = name
    THEN reg[CHOOSE i \in 1..Len(reg) : reg[i].name = name]
    ELSE NoTool

\* sorted(matching_tools, key=lambda t: t.priority, reverse=True): a stable
\* sort, so equal priorities keep the order of the input
RECURSIVE SortByPriority(_)
SortByPriority(s) ==
    IF s = <<>> THEN <<>>
    ELSE LET best == CHOOSE i \in 1..Len(s) :
                        /\ \A j \in 1..Len(s) : s[j].priority <= s[i].priority
                        /\ \A j \in 1..(i-1) : s[j].priority < s[i].priority
         IN  <<s[best]>> \o
             SortByPriority(SubSeq(s, 1, best-1) \o SubSeq(s, best+1, Len(s)))

\* the matching tools in the order of the dict, without the sort
find_tools_unsorted(reg, requirements) ==
    LET matches(t) == t.enabled /\ (requirements \cap t.output_provides # {})
    IN  SelectSeq(reg, matches)

find_tools_for_requirements(reg, requirements) ==
    LET matches(t) == t.enabled /\ (requirements \cap t.output_provides # {})
    IN  SortByPriority(SelectSeq(reg, matches))

\* can_execute_tool without the test of tool.enabled
can_execute_tool_any(reg, tool_name, data) ==
    LET tool == get_tool(reg, tool_name)
    IN  IF tool = NoTool THEN FALSE
        ELSE tool.input_requirements \subseteq data

can_execute_tool(reg, tool_name, data) ==
    LET tool == get_tool(reg, tool_name)
    IN  IF tool = NoTool \/ ~tool.enabled THEN FALSE
        ELSE tool.input_requirements \subseteq data

(***************************************************************************)
(* get_execution_plan. The accumulator holds the locals of the function;   *)
(* selected_for records, for each entry of plan, the goal the tool was     *)
(* selected for (line 158 runs inside the loop over that goal).            *)
(***************************************************************************)
PassBound == 20

\* the first provider selected without asking whether it can execute
SelectToolFirst(reg, acc, goal) ==
    LET ts == find_tools_for_requirements(reg, {goal})
    IN  IF ts = <<>> THEN acc
        ELSE [acc EXCEPT
                !.plan = Append(@, ts[1].name),
                !.selected_for = Append(@, goal),
                !.current_data = @ \cup ts[1].output_provides,
                !.remaining_goals = RemoveFirst(@, goal),
                !.progress_made = TRUE]

\* lines 156-162: the first tool of `ts` that can execute is selected
SelectTool(reg, acc, goal) ==
    LET ts == find_tools_for_requirements(reg, {goal})
        ex == {i \in 1..Len(ts) : can_execute_tool(reg, ts[i].name, acc.current_data)}
    IN  IF ex = {} THEN acc
        ELSE LET tool == ts[CHOOSE i \in ex : \A j \in ex : i <= j]
             IN  [acc EXCEPT
                    !.plan = Append(@, tool.name),
                    !.selected_for = Append(@, goal),
                    !.current_data = @ \cup tool.output_provides,
                    !.remaining_goals = RemoveFirst(@, goal),
                    !.progress_made = TRUE]

\* lines 153-165: for goal in remaining_goals.copy(), leaving the loop as
\* soon as the goal just handled is no longer in remaining_goals
RECURSIVE GoalLoop(_, _, _, _)
GoalLoop(reg, copy, i, acc) ==
    IF i > Len(copy) THEN acc
    ELSE LET after == SelectTool(reg, acc, copy[i])
         IN  IF ~InSeq(copy[i], after.remaining_goals) THEN after
             ELSE GoalLoop(reg, copy, i + 1, after)

\* the while loop without its pass bound
RECURSIVE PlanLoopUnbounded(_, _)
PlanLoopUnbounded(reg, acc) ==
    IF acc.remaining_goals = <<>> THEN acc
    ELSE LET start == [acc EXCEPT !.iteration = @ + 1, !.progress_made = FALSE]
             after == GoalLoop(reg, start.remaining_goals, 1, start)
         IN  IF ~after.progress_made THEN after ELSE PlanLoopUnbounded(reg, after)

\* lines 148-169: the while loop
RECURSIVE PlanLoop(_, _)
PlanLoop(reg, acc) ==
    IF acc.remaining_goals = <<>> \/ ~(acc.iteration < PassBound) THEN acc
    ELSE LET start == [acc EXCEPT !.iteration = @ + 1, !.progress_made = FALSE]
             after == GoalLoop(reg, start.remaining_goals, 1, start)
         IN  IF ~after.progress_made THEN after ELSE PlanLoop(reg, after)

PlanTrace(reg, gs, avail) ==
    PlanLoop(reg, [plan |-> <<>>, selected_for |-> <<>>, current_data |-> avail,
                   remaining_goals |-> gs, iteration |-> 0,
                   progress_made |-> FALSE])

get_execution_plan(reg, gs, avail) == PlanTrace(reg, gs, avail).plan

(***************************************************************************)
(* The state dict: a function from its keys to their values                *)
(***************************************************************************)
Has(st, k) == k \in DOMAIN st

\* the dict replaced by `other` instead of updated with it
UpdateReplacing(st, other) == other

\* dict.update(other)
Update(st, other) ==
    [k \in DOMAIN st \cup DOMAIN other |->
        IF k \in DOMAIN other THEN other[k] ELSE st[k]]

\* st[k] = v
Put(st, k, v) == Update(st, k :> v)

(***************************************************************************)
(* DynamicController                                                       *)
(***************************************************************************)
\* quality_thresholds; plausibility is counted in hundredths
plausibility_min == 70
max_issues == 2
\* max_unstable_ratio = 0.3 = MaxUnstableNum / MaxUnstableDen
MaxUnstableNum == 3
MaxUnstableDen == 10

DefaultMaxIterations == 5

NoController ==
    [exists |-> FALSE, current_pipeline |-> <<>>, max_iterations |-> 0,
     current_iteration |-> 0]

\* DynamicController.__init__
NewController ==
    [exists |-> TRUE, current_pipeline |-> <<>>,
     max_iterations |-> DefaultMaxIterations, current_iteration |-> 0]

\* three of the issue strings validate_biological_plausibility appends
Issues ==
    <<"Network has disconnected components", "Many unstable nodes detected",
      "Missing p53 tumor suppressor pathway">>

\* "w in issue.lower()", for the words adapt_pipeline looks for
Mentions(issue, w) ==
    \/ issue = "Many unstable nodes detected" /\ w = "unstable"
    \/ issue = "Missing p53 tumor suppressor pathway" /\ w = "pathway"

\* assess_current_quality with the thresholds included
assess_current_quality_inclusive(st) ==
    LET hasv == Has(st, "validation_results")
        validation == st["validation_results"]
        plausibility == validation.biological_plausibility
        issues_count == Len(validation.issues)
        low == hasv /\ plausibility <= plausibility_min
        many == hasv /\ issues_count >= max_issues
        total_nodes == IF Has(st, "model_data") THEN st["model_data"].nodes ELSE 0
        unstable_count == st["dynamics_results"].unstable_nodes
        \* unstable_count / total_nodes > 0.3
        high == /\ Has(st, "dynamics_results")
                /\ total_nodes > 0
                /\ unstable_count * MaxUnstableDen >= MaxUnstableNum * total_nodes
    IN  [overall_score |-> IF hasv THEN plausibility ELSE 0,
         issues |-> IF hasv THEN validation.issues ELSE <<>>,
         recommendations |->
            (IF low THEN <<"Low biological plausibility">> ELSE <<>>)
            \o (IF many THEN <<"Too many issues found">> ELSE <<>>)
            \o (IF high THEN <<"High instability ratio">> ELSE <<>>),
         needs_iteration |-> low \/ many \/ high]

\* assess_current_quality
assess_current_quality(st) ==
    LET hasv == Has(st, "validation_results")
        validation == st["validation_results"]
        plausibility == validation.biological_plausibility
        issues_count == Len(validation.issues)
        low == hasv /\ plausibility < plausibility_min
        many == hasv /\ issues_count > max_issues
        total_nodes == IF Has(st, "model_data") THEN st["model_data"].nodes ELSE 0
        unstable_count == st["dynamics_results"].unstable_nodes
        \* unstable_count / total_nodes > 0.3
        high == /\ Has(st, "dynamics_results")
                /\ total_nodes > 0
                /\ unstable_count * MaxUnstableDen > MaxUnstableNum * total_nodes
    IN  [overall_score |-> IF hasv THEN plausibility ELSE 0,
         issues |-> IF hasv THEN validation.issues ELSE <<>>,
         recommendations |->
            (IF low THEN <<"Low biological plausibility">> ELSE <<>>)
            \o (IF many THEN <<"Too many issues found">> ELSE <<>>)
            \o (IF high THEN <<"High instability ratio">> ELSE <<>>),
         needs_iteration |-> low \/ many \/ high]

\* adapt_pipeline, lines 104-124: the goals of the adapted pipeline
additional_goals(quality_assessment) ==
    LET any(W) == \E i \in 1..Len(quality_assessment.issues) :
                     \E w \in W : Mentions(quality_assessment.issues[i], w)
    IN  (IF any({"topology"}) THEN <<"topology_deep_analyzed">> ELSE <<>>)
        \o (IF any({"dynamic", "unstable"}) THEN <<"dynamics_deep_analyzed">> ELSE <<>>)
        \o (IF any({"biological", "pathway"}) THEN <<"biology_deep_validated">> ELSE <<>>)
        \o <<"quality_validated", "report_generated">>

adapt_pipeline(reg, st, quality_assessment) ==
    get_execution_plan(reg, additional_goals(quality_assessment), DOMAIN st)

\* the counter left as it is
NextIterationStuck(n) == n

\* the counter incremented twice
NextIterationTwice(n) == n + 2

\* self.current_iteration += 1
NextIteration(n) == n + 1

\* should_continue_iteration with the quality checked before the limit
should_continue_iteration_quality_first(reg, ctl, st) ==
    LET iteration == NextIteration(ctl.current_iteration)
        assessment == assess_current_quality(st)
        quality_assessment == [needs_iteration |-> assessment.needs_iteration]
    IN  IF assessment.needs_iteration
        THEN [action |-> "CONTINUE", reason |-> "quality_issues_detected",
              quality_assessment |-> quality_assessment, iteration |-> iteration,
              has_next_pipeline |-> TRUE,
              next_pipeline |-> adapt_pipeline(reg, st, assessment)]
        ELSE IF iteration >= ctl.max_iterations
        THEN [action |-> "STOP",
              reason |-> "max_iterations_reached_" \o ToString(ctl.max_iterations),
              quality_assessment |-> quality_assessment, iteration |-> iteration,
              has_next_pipeline |-> FALSE, next_pipeline |-> <<>>]
        ELSE [action |-> "STOP", reason |-> "acceptable_quality",
              quality_assessment |-> quality_assessment, iteration |-> iteration,
              has_next_pipeline |-> FALSE, next_pipeline |-> <<>>]

\* should_continue_iteration: the decision, for the incremented iteration.
\* Of decision["quality_assessment"] the model keeps needs_iteration: the
\* loop reads nothing of it.
should_continue_iteration(reg, ctl, st) ==
    LET iteration == NextIteration(ctl.current_iteration)
        assessment == assess_current_quality(st)
        quality_assessment == [needs_iteration |-> assessment.needs_iteration]
    IN  IF iteration >= ctl.max_iterations
        THEN [action |-> "STOP",
              reason |-> "max_iterations_reached_" \o ToString(ctl.max_iterations),
              quality_assessment |-> quality_assessment, iteration |-> iteration,
              has_next_pipeline |-> FALSE, next_pipeline |-> <<>>]
        ELSE IF assessment.needs_iteration
        THEN [action |-> "CONTINUE", reason |-> "quality_issues_detected",
              quality_assessment |-> quality_assessment, iteration |-> iteration,
              has_next_pipeline |-> TRUE,
              next_pipeline |-> adapt_pipeline(reg, st, assessment)]
        ELSE [action |-> "STOP", reason |-> "acceptable_quality",
              quality_assessment |-> quality_assessment, iteration |-> iteration,
              has_next_pipeline |-> FALSE, next_pipeline |-> <<>>]

(***************************************************************************)
(* Boolean networks (agent/nodes/dynamics.py, agent/nodes/perturb.py).     *)
(* A model is a sequence of nodes in dict order, each [name, type, logic,  *)
(* value]: logic is the rule text as the sequence of its tokens (a gene    *)
(* name, "!", "&", "|", or the whole text "True" / "False"), value is what *)
(* the first input condition gives an input node (False when it gives      *)
(* none). A network state is a function from node names to BOOLEAN.        *)
(***************************************************************************)
InputNode(n, v) == [name |-> n, type |-> "input", logic |-> <<>>, value |-> v]

LogicNode(n, rule) == [name |-> n, type |-> "logic", logic |-> rule, value |-> FALSE]

NodeNamesOf(model) == {model[i].name : i \in 1..Len(model)}

\* the genes replaced by the opposite of their values
SubstituteInverted(rule, st) ==
    [i \in 1..Len(rule) |->
        CASE rule[i] \in DOMAIN st -> (IF st[rule[i]] THEN "False" ELSE "True")
          [] rule[i] = "&" -> "and"
          [] rule[i] = "|" -> "or"
          [] rule[i] = "!" -> "not"
          [] OTHER -> rule[i]]

\* expr.replace(gene_name, "True" / "False") for the genes of the state,
\* then '&' -> ' and ', '|' -> ' or ', '!' -> ' not ': the words of expr
Substitute(rule, st) ==
    [i \in 1..Len(rule) |->
        CASE rule[i] \in DOMAIN st -> (IF st[rule[i]] THEN "True" ELSE "False")
          [] rule[i] = "&" -> "and"
          [] rule[i] = "|" -> "or"
          [] rule[i] = "!" -> "not"
          [] OTHER -> rule[i]]

\* the pieces of `ws` between the occurrences of the word `sep`
RECURSIVE SplitAt(_, _)
SplitAt(ws, sep) ==
    IF \A i \in 1..Len(ws) : ws[i] # sep THEN <<ws>>
    ELSE LET k == CHOOSE i \in 1..Len(ws) :
                     ws[i] = sep /\ \A j \in 1..(i-1) : ws[j] # sep
         IN  <<SubSeq(ws, 1, k-1)>> \o SplitAt(SubSeq(ws, k+1, Len(ws)), sep)

Operators == {"and", "or", "not"}

\* a not_test of Python without parentheses: "not"* followed by one atom
IsNotTest(ws) ==
    /\ ws # <<>>
    /\ ws[Len(ws)] \notin Operators
    /\ \A i \in 1..(Len(ws)-1) : ws[i] = "not"

\* eval compiles the whole expression before it evaluates anything
Compiles(ws) ==
    \A d \in Range(SplitAt(ws, "or")) : \A c \in Range(SplitAt(d, "and")) : IsNotTest(c)

\* the value of a not_test: "T", "F", or "E" when a name is not defined
EvalNotTest(ws) ==
    LET atom == ws[Len(ws)]
        odd == (Len(ws) - 1) % 2 = 1
    IN  IF atom \notin {"True", "False"} THEN "E"
        ELSE IF (atom = "True") = odd THEN "F" ELSE "T"

\* and_test: operands left to right, ending at the first that is not true
RECURSIVE EvalAnd(_)
EvalAnd(cs) ==
    LET v == EvalNotTest(Head(cs))
    IN  IF Len(cs) = 1 \/ v # "T" THEN v ELSE EvalAnd(Tail(cs))

\* or_test: operands left to right, ending at the first that is not false
RECURSIVE EvalOr(_)
EvalOr(ds) ==
    LET v == EvalAnd(SplitAt(Head(ds), "and"))
    IN  IF Len(ds) = 1 \/ v # "F" THEN v ELSE EvalOr(Tail(ds))

\* evaluate_logic_rule: False for an empty rule and when eval raises
evaluate_logic_rule(logic_rule, st) ==
    IF logic_rule = <<>> THEN FALSE
    ELSE LET ws == Substitute(logic_rule, st)
         IN  IF ~Compiles(ws) THEN FALSE
             ELSE EvalOr(SplitAt(ws, "or")) = "T"

\* the loop over the nodes reading the state it is writing
RECURSIVE VisitNodesInPlace(_, _, _, _)
VisitNodesInPlace(model, order, current_state, next_state) ==
    IF order = <<>> THEN next_state
    ELSE LET node == model[Head(order)]
         IN  VisitNodesInPlace(model, Tail(order), current_state,
                IF node.type = "logic"
                THEN [next_state EXCEPT
                        ![node.name] = evaluate_logic_rule(node.logic, next_state)]
                ELSE next_state)

\* the loop over the nodes without the test of the node's type
RECURSIVE VisitNodesAll(_, _, _, _)
VisitNodesAll(model, order, current_state, next_state) ==
    IF order = <<>> THEN next_state
    ELSE LET node == model[Head(order)]
         IN  VisitNodesAll(model, Tail(order), current_state,
                [next_state EXCEPT
                    ![node.name] = evaluate_logic_rule(node.logic, current_state)])

\* "for node_name, node_data in nodes.items()", the nodes visited in `order`:
\* next_state[node_name] = evaluate_logic_rule(logic_rule, current_state)
RECURSIVE VisitNodes(_, _, _, _)
VisitNodes(model, order, current_state, next_state) ==
    IF order = <<>> THEN next_state
    ELSE LET node == model[Head(order)]
         IN  VisitNodes(model, Tail(order), current_state,
                IF node.type = "logic"
                THEN [next_state EXCEPT
                        ![node.name] = evaluate_logic_rule(node.logic, current_state)]
                ELSE next_state)

\* the order of nodes.items()
DictOrder(model) == [i \in 1..Len(model) |-> i]

\* one update: next_state = current_state.copy(), then the loop over the nodes
UpdateStep(model, current_state) ==
    VisitNodes(model, DictOrder(model), current_state, current_state)

\* simulate_baseline, steps: int = 50
BaselineSteps == 50

\* simulate_baseline, lines 98-104: logic nodes start at False
BaselineInitial(model) ==
    [n \in NodeNamesOf(model) |->
        LET node == model[CHOOSE i \in 1..Len(model) : model[i].name = n]
        IN  IF node.type = "input" THEN node.value ELSE FALSE]

\* the k states that follow st under UpdateStep, computed by halves
RECURSIVE Orbit(_, _, _)
Orbit(model, st, k) ==
    IF k = 0 THEN <<>>
    ELSE IF k = 1 THEN <<UpdateStep(model, st)>>
    ELSE LET h == k \div 2
             a == Orbit(model, st, h)
         IN  a \o Orbit(model, a[h], k - h)

\* the first position of `orbit` that repeats the one before it, 0 if none
FirstSteady(orbit) ==
    LET steady == {i \in 2..Len(orbit) : orbit[i] = orbit[i-1]}
    IN  IF steady = {} THEN 0 ELSE CHOOSE i \in steady : \A j \in steady : i <= j

\* simulate_baseline, lines 107-120: the loop ends at the first update that
\* changes nothing, or after BaselineSteps updates; the state returned and
\* the number of updates computed
BaselineLoop(model, initial_state) ==
    LET orbit == <<initial_state>> \o Orbit(model, initial_state, BaselineSteps)
        i == FirstSteady(orbit)
    IN  IF i = 0 THEN [state |-> orbit[Len(orbit)], updates |-> BaselineSteps]
        ELSE [state |-> orbit[i-1], updates |-> i - 1]

simulate_baseline(model) == BaselineLoop(model, BaselineInitial(model)).state

\* calculate_impact: changed_nodes / total_nodes as <<changed, total>>, and
\* 0.0 as <<0, 1>>
calculate_impact(baseline, perturbed) ==
    IF DOMAIN baseline = {} \/ DOMAIN perturbed = {} THEN <<0, 1>>
    ELSE <<Cardinality({n \in DOMAIN baseline :
                          n \in DOMAIN perturbed /\ baseline[n] # perturbed[n]}),
           Cardinality(DOMAIN baseline)>>

\* find_affected_nodes
find_affected_nodes(baseline, perturbed) ==
    {n \in DOMAIN baseline : n \in DOMAIN perturbed /\ baseline[n] # perturbed[n]}

\* test_knockout: the target's rule becomes "False"
Knockout(model, target_node) ==
    [i \in 1..Len(model) |->
        IF model[i].name = target_node
        THEN [model[i] EXCEPT !.logic = <<"False">>]
        ELSE model[i]]

test_knockout(model, target_node, baseline_states) ==
    LET ko_states == simulate_baseline(Knockout(model, target_node))
    IN  [node |-> target_node,
         impact_score |-> calculate_impact(baseline_states, ko_states),
         affected_nodes |-> find_affected_nodes(baseline_states, ko_states),
         final_states |-> ko_states]

\* test_overexpression: the target's rule becomes "True"
Overexpress(model, target_node) ==
    [i \in 1..Len(model) |->
        IF model[i].name = target_node
        THEN [model[i] EXCEPT !.logic = <<"True">>]
        ELSE model[i]]

test_overexpression(model, target_node, baseline_states) ==
    LET oe_states == simulate_baseline(Overexpress(model, target_node))
    IN  [node |-> target_node,
         impact_score |-> calculate_impact(baseline_states, oe_states),
         affected_nodes |-> find_affected_nodes(baseline_states, oe_states),
         final_states |-> oe_states]

\* the rule assigned in the model the caller passed, as without the copy
ModelAfterShared(model, modified_model) == modified_model

\* modified_model = copy.deepcopy(model): the assignment to the rule of the
\* target in modified_model leaves the model of the caller as it is
ModelAfter(model, modified_model) == model

\* impact_score < 0.1, for the score changed / total
BelowTenth(score) == 10 * score[1] < score[2]

\* impact_score > 0.5
AboveHalf(score) == 2 * score[1] > score[2]

\* analyze_perturbations, lines 57-72: the loop over the logic nodes; acc
\* holds the model object and the four lists
RECURSIVE PerturbLoop(_, _, _)
PerturbLoop(logic_nodes, baseline_states, acc) ==
    IF logic_nodes = <<>> THEN acc
    ELSE LET node_name == Head(logic_nodes)
             ko_result == test_knockout(acc.model, node_name, baseline_states)
             model1 == ModelAfter(acc.model, Knockout(acc.model, node_name))
             oe_result == test_overexpression(model1, node_name, baseline_states)
             model2 == ModelAfter(model1, Overexpress(model1, node_name))
             robust == BelowTenth(ko_result.impact_score)
                          /\ BelowTenth(oe_result.impact_score)
             sensitive == ~robust /\ (AboveHalf(ko_result.impact_score)
                                        \/ AboveHalf(oe_result.impact_score))
         IN  PerturbLoop(Tail(logic_nodes), baseline_states,
                [model |-> model2,
                 knockouts |-> Append(acc.knockouts, ko_result),
                 overexpressions |-> Append(acc.overexpressions, oe_result),
                 robust_nodes |-> IF robust THEN Append(acc.robust_nodes, node_name)
                                  ELSE acc.robust_nodes,
                 sensitive_nodes |-> IF sensitive
                                     THEN Append(acc.sensitive_nodes, node_name)
                                     ELSE acc.sensitive_nodes])

\* the names of the logic nodes in dict order (line 55)
LogicNodeList(model) ==
    LET logic == SelectSeq(model, LAMBDA x : x.type = "logic")
    IN  [i \in 1..Len(logic) |-> logic[i].name]

\* analyze_perturbations: the result, and the model object after the call
analyze_perturbations(model) ==
    LET baseline_states == simulate_baseline(model)
        done == PerturbLoop(LogicNodeList(model), baseline_states,
                    [model |-> model, knockouts |-> <<>>, overexpressions |-> <<>>,
                     robust_nodes |-> <<>>, sensitive_nodes |-> <<>>])
    IN  [baseline_states |-> baseline_states,
         knockouts |-> done.knockouts,
         overexpressions |-> done.overexpressions,
         robust_nodes |-> done.robust_nodes,
         sensitive_nodes |-> done.sensitive_nodes,
         model |-> done.model]

\* extract_dependencies: the identifiers of the rule that are no keyword
\* ("&", "|" and "!" are no identifiers)
Keywords == {"and", "or", "not", "True", "False", "true", "false", "&", "|", "!"}

extract_dependencies(logic_rule) == Range(logic_rule) \ Keywords

\* topology_node, lines 33-40: the edges of the graph
TopologyEdges(model) ==
    {e \in NodeNamesOf(model) \X NodeNamesOf(model) :
        \E i \in 1..Len(model) :
            /\ model[i].name = e[2] /\ model[i].type = "logic"
            /\ e[1] \in extract_dependencies(model[i].logic)}

\* G.out_degree(node_name)
OutDegree(edges, n) == Cardinality({e \in edges : e[1] = n})

\* analyze_network_structure, lines 112-122: the nodes without outgoing
\* edges, in dict order
OutputNodes(model, edges) ==
    LET sinks == SelectSeq(model, LAMBDA x : OutDegree(edges, x.name) = 0)
    IN  [i \in 1..Len(sinks) |-> sinks[i].name]

\* simulate_dynamics, max_steps: int = 100
MaxSteps == 100

\* simulate_single_trajectory: the list of states, the initial one first;
\* the loop ends after appending the first state that repeats the one
\* before it, or after MaxSteps updates
simulate_single_trajectory(model, initial_state) ==
    LET orbit == <<initial_state>> \o Orbit(model, initial_state, MaxSteps)
        i == FirstSteady(orbit)
    IN  IF i = 0 THEN orbit ELSE SubSeq(orbit, 1, i)

NoAttractor == [type |-> "none", period |-> 0, states |-> <<>>]

\* find_attractor, range(2, min(10, len(trajectory) // 2))
MaxPeriod == 10

Min(a, b) == IF a < b THEN a ELSE b

\* find_attractor without its search for a limit cycle
find_attractor_fixed_only(trajectory) ==
    LET len == Len(trajectory)
    IN  IF len < 2 THEN NoAttractor
        ELSE IF trajectory[len] = trajectory[len - 1]
        THEN [type |-> "fixed_point", period |-> 1, states |-> <<trajectory[len]>>]
        ELSE NoAttractor

\* find_attractor
find_attractor(trajectory) ==
    LET len == Len(trajectory)
        repeats(p) == /\ len >= 2 * p
                      /\ SubSeq(trajectory, len - p + 1, len)
                            = SubSeq(trajectory, len - 2*p + 1, len - p)
        periods == {p \in 2..(Min(MaxPeriod, len \div 2) - 1) : repeats(p)}
    IN  IF len < 2 THEN NoAttractor
        ELSE IF trajectory[len] = trajectory[len - 1]
        THEN [type |-> "fixed_point", period |-> 1, states |-> <<trajectory[len]>>]
        ELSE IF periods # {}
        THEN LET p == CHOOSE q \in periods : \A r \in periods : q <= r
             IN  [type |-> "limit_cycle", period |-> p,
                  states |-> SubSeq(trajectory, len - p + 1, len)]
        ELSE NoAttractor

\* detect_oscillation: some node changes within the last 4 states
detect_oscillation(trajectory) ==
    LET len == Len(trajectory)
    IN  IF len < 4 THEN FALSE
        ELSE \E n \in DOMAIN trajectory[1] :
                \E i, j \in (len - 3)..len : trajectory[i][n] # trajectory[j][n]

\* find_unstable_nodes: the nodes that change in more than 20% of the
\* length of the trajectory, for a trajectory of at least 5 states
find_unstable_nodes(trajectory) ==
    LET len == Len(trajectory)
        changes(n) == Cardinality({i \in 2..len : trajectory[i][n] # trajectory[i-1][n]})
    IN  IF len < 5 THEN {}
        ELSE {n \in DOMAIN trajectory[1] : 5 * changes(n) > len}

\* simulate_dynamics, num_simulations: int = 10
NumSimulations == 10

\* nothing simulated yet
NoSim ==
    [op |-> "none", target |-> "", baseline |-> <<>>, final |-> <<>>, updates |-> 0,
     impact_score |-> <<0, 1>>, affected_nodes |-> {}, trajectory |-> <<>>,
     attractor |-> NoAttractor, has_oscillations |-> FALSE,
     trials |-> 0, attractors |-> <<>>, unstable_nodes |-> {}, results |-> <<>>,
     knockouts |-> <<>>, overexpressions |-> <<>>, robust_nodes |-> <<>>,
     sensitive_nodes |-> <<>>, edges |-> {}, output_nodes |-> <<>>,
     position |-> 0, knockout_results |-> <<>>, overexpression_results |-> <<>>,
     runs |-> 0,
     previous |-> [knockout_results |-> <<>>, overexpression_results |-> <<>>,
                   robust_nodes |-> <<>>, sensitive_nodes |-> <<>>]]

(***************************************************************************)
(* Registries and planning requests the model explores                     *)
(***************************************************************************)
ToolNames == {"A", "B"}
Keys == {"a", "b"}
Priorities == {50, 80}

\* every definition over ToolNames, Keys and Priorities
GenericDefs ==
    {ToolDefinition(n, r, o, p, e) :
        n \in ToolNames, r \in SUBSET Keys, o \in (SUBSET Keys) \ {{}},
        p \in Priorities, e \in BOOLEAN}

\* distinct goal keys, all provided by one tool without requirements
GoalPool ==
    <<"g01", "g02", "g03", "g04", "g05", "g06", "g07", "g08", "g09", "g10",
      "g11", "g12", "g13", "g14", "g15", "g16", "g17", "g18", "g19", "g20",
      "g21", "g22", "g23", "g24">>

BulkDef == ToolDefinition("bulk", {}, Range(GoalPool), 50, TRUE)

\* the TOOL_DEFINITION of every module of agent/tools
RealDefs ==
    <<ToolDefinition("analyze_dynamics", {"model_data"},
                     {"dynamics_results", "dynamics_analyzed"}, 80, TRUE),
      ToolDefinition("analyze_topology", {"model_data"},
                     {"topology_results", "topology_analyzed"}, 90, TRUE),
      ToolDefinition("deep_topology_analysis", {"topology_results", "model_data"},
                     {"deep_topology_results", "topology_deep_analyzed"}, 85, TRUE),
      ToolDefinition("generate_report", {"model_data"},
                     {"report_file", "report_data", "final_quality",
                      "report_generated"}, 10, TRUE),
      ToolDefinition("load_bnd_network", {"model_path"},
                     {"model_data", "bnd_network", "network_name",
                      "network_loaded"}, 100, TRUE),
      ToolDefinition("pathway_validator", {"model_data"},
                     {"pathway_validation_results", "biology_deep_validated"},
                     75, TRUE),
      ToolDefinition("test_perturbations", {"model_data"},
                     {"perturbation_results", "perturbations_tested"}, 70, TRUE),
      ToolDefinition("validate_biology", {"model_data"},
                     {"validation_results", "quality_validated"}, 60, TRUE)>>

RECURSIVE RegisterAll(_, _)
RegisterAll(reg, defs) ==
    IF defs = <<>> THEN reg
    ELSE RegisterAll(register_tool(reg, Head(defs)), Tail(defs))

\* discover_tools: register_tool for every module found
discover_tools(reg) == RegisterAll(reg, RealDefs)

\* create_initial_pipeline: the analysis goals in order of priority
analysis_goals ==
    <<"network_loaded", "topology_analyzed", "dynamics_analyzed",
      "perturbations_tested", "quality_validated", "report_generated">>

\* run_dynamic_analysis: the keys of initial_state
InitialKeys == {"model_path", "max_iterations", "verbose", "iteration"}

IsGeneric(reg) == \A i \in 1..Len(reg) : reg[i] \in GenericDefs

AllOutputs(reg) == UNION {reg[i].output_provides : i \in 1..Len(reg)}

\* the goal lists adapt_pipeline can build
AdaptGoalLists ==
    {SelectSeq(<<"topology_deep_analyzed", "dynamics_deep_analyzed",
                 "biology_deep_validated">>, LAMBDA g : g \in S)
        \o <<"quality_validated", "report_generated">> :
     S \in SUBSET {"topology_deep_analyzed", "dynamics_deep_analyzed",
                   "biology_deep_validated"}}

\* the requests made of a registry: <<goals, available_data>>
PlanInputs(reg) ==
    IF reg = <<>> \/ IsGeneric(reg)
    THEN SeqsUpTo(Keys, MaxGoals) \X (SUBSET Keys)
    ELSE IF reg = <<BulkDef>>
    THEN {SubSeq(GoalPool, 1, n) : n \in 1..MaxLongGoals} \X {{}, {GoalPool[1]}}
    ELSE ({analysis_goals} \cup AdaptGoalLists)
         \X {InitialKeys,
             InitialKeys \cup get_tool(reg, "load_bnd_network").output_provides,
             InitialKeys \cup AllOutputs(reg)
                \cup {"controller", "controller_decision"}}

\* the history of register_tool calls
NoneRegistered == [last |-> <<>>, overwrote |-> FALSE]

RecordRegistration(h, d) ==
    [last |-> Put(h.last, d.name, d),
     overwrote |-> h.overwrote \/ d.name \in DOMAIN h.last]

RECURSIVE RecordAll(_, _)
RecordAll(h, defs) ==
    IF defs = <<>> THEN h
    ELSE RecordAll(RecordRegistration(h, Head(defs)), Tail(defs))

NotCalled ==
    [called |-> FALSE, plan |-> <<>>, selected_for |-> <<>>, current_data |-> {},
     remaining_goals |-> <<>>, iteration |-> 0, progress_made |-> FALSE]

InitPlan ==
    /\ tools = <<>>
    /\ goals = <<>>
    /\ available_data = {}
    /\ planres = NotCalled
    /\ registered = NoneRegistered
    /\ graph = "none"
    /\ pc = "END"
    /\ state = <<>>
    /\ controller = NoController
    /\ step = 0
    /\ attempted = <<>>
    /\ outcomes = <<>>
    /\ pipeline_runs = 0
    /\ raises = 0
    /\ net = <<>>
    /\ sim = NoSim

\* register_tool at startup, before the registry is asked for a plan
RegisterTool ==
    /\ ~planres.called
    /\ \E d \in GenericDefs \cup {BulkDef} :
          /\ IF d = BulkDef THEN tools = <<>> ELSE IsGeneric(tools)
          /\ tools' = register_tool(tools, d)
          /\ registered' = RecordRegistration(registered, d)
    /\ UNCHANGED <<goals, available_data, planres, loopvars, netvars>>

\* discover_tools at startup
DiscoverTools ==
    /\ ~planres.called
    /\ tools = <<>>
    /\ tools' = discover_tools(tools)
    /\ registered' = RecordAll(registered, RealDefs)
    /\ UNCHANGED <<goals, available_data, planres, loopvars, netvars>>

\* one request per behaviour: get_execution_plan keeps nothing between calls
GetExecutionPlan ==
    /\ ~planres.called
    /\ \E in \in PlanInputs(tools) :
          /\ goals' = in[1]
          /\ available_data' = in[2]
          /\ planres' = [called |-> TRUE] @@ PlanTrace(tools, in[1], in[2])
    /\ UNCHANGED <<tools, registered, loopvars, netvars>>

NextPlan == RegisterTool \/ DiscoverTools \/ GetExecutionPlan

SpecPlan == InitPlan /\ [][NextPlan]_vars

(***************************************************************************)
(* What the tool functions can return (the analyses themselves and the     *)
(* validation oracle are inputs of the loop)                               *)
(***************************************************************************)
NodeCounts == {0, 10}
\* of 10 nodes, 3 unstable ones are at the ratio 0.3 and 4 above it
UnstableCounts == {3, 4}
Plausibilities == {60, 70}

\* the sub-lists of Issues
IssueLists ==
    {SelectSeq(Issues, LAMBDA x : x \in S) : S \in SUBSET Range(Issues)}

ValuesOf(key, st) ==
    CASE key = "model_data" -> {[nodes |-> n] : n \in NodeCounts}
      [] key = "dynamics_results" ->
            {[unstable_nodes |-> IF u <= st["model_data"].nodes THEN u ELSE 0] :
                u \in UnstableCounts}
      [] key = "validation_results" ->
            {[biological_plausibility |-> p, issues |-> l] :
                p \in Plausibilities, l \in IssueLists}
      [] OTHER -> {TRUE}

Raised == [raised |-> TRUE, value |-> <<>>]

\* the dicts that hold a value for every key of `keys`
RECURSIVE DictsOver(_, _)
DictsOver(keys, st) ==
    IF keys = {} THEN {<<>>}
    ELSE LET k == CHOOSE x \in keys : TRUE
         IN  {Put(d, k, v) : d \in DictsOver(keys \ {k}, st), v \in ValuesOf(k, st)}

\* tool.function(state): an exception, or a dict with the declared outputs;
\* every execute() raises ValueError when an input it reads is not in state
ToolResults(tool, st, may_raise) ==
    IF ~(tool.input_requirements \subseteq DOMAIN st) THEN {Raised}
    ELSE (IF may_raise THEN {Raised} ELSE {}) \cup
         {[raised |-> FALSE, value |-> d] :
            d \in DictsOver(tool.output_provides, st)}

\* execute_pipeline_step without its try/except
execute_pipeline_step_uncaught(reg, st, step_name, result) ==
    LET tool == get_tool(reg, step_name)
    IN  IF tool = NoTool
        THEN [state |-> st, outcome |-> "not_found", propagated |-> FALSE]
        ELSE IF ~can_execute_tool(reg, step_name, DOMAIN st)
        THEN [state |-> st, outcome |-> "missing_requirements", propagated |-> FALSE]
        ELSE IF result.raised
        THEN [state |-> st, outcome |-> "raised", propagated |-> TRUE]
        ELSE [state |-> Update(st, result.value), outcome |-> "ok",
              propagated |-> FALSE]

\* execute_pipeline_step without the test of can_execute_tool
execute_pipeline_step_unchecked(reg, st, step_name, result) ==
    LET tool == get_tool(reg, step_name)
    IN  IF tool = NoTool
        THEN [state |-> st, outcome |-> "not_found", propagated |-> FALSE]
        ELSE IF result.raised
        THEN [state |-> st, outcome |-> "raised", propagated |-> FALSE]
        ELSE [state |-> Update(st, result.value), outcome |-> "ok",
              propagated |-> FALSE]

\* execute_pipeline_step: the state returned, how the step ended, and
\* whether an exception leaves the function
execute_pipeline_step(reg, st, step_name, result) ==
    LET tool == get_tool(reg, step_name)
    IN  IF tool = NoTool
        THEN [state |-> st, outcome |-> "not_found", propagated |-> FALSE]
        ELSE IF ~can_execute_tool(reg, step_name, DOMAIN st)
        THEN [state |-> st, outcome |-> "missing_requirements", propagated |-> FALSE]
        ELSE IF result.raised
        THEN [state |-> st, outcome |-> "raised", propagated |-> FALSE]
        ELSE [state |-> Update(st, result.value), outcome |-> "ok",
              propagated |-> FALSE]

\* create_initial_pipeline
create_initial_pipeline(reg, available) ==
    get_execution_plan(reg, analysis_goals, available)

(***************************************************************************)
(* execute_pipeline_step called with any step name, on any registry        *)
(***************************************************************************)
MaxDirectSteps == 2

\* definitions of one priority: execute_pipeline_step does not read it
StepDefs == {d \in GenericDefs : d.priority = 50}

\* the registries of at most two tools
StepRegistries ==
    {<<>>} \cup {<<d>> : d \in StepDefs}
           \cup {<<d, e>> : d \in {x \in StepDefs : x.name = "A"},
                            e \in {x \in StepDefs : x.name = "B"}}

\* the step names: the names of ToolNames and one that is never registered
StepNames == ToolNames \cup {"unknown"}

InitStep ==
    /\ tools \in StepRegistries
    /\ goals = <<>>
    /\ available_data = {}
    /\ planres = NotCalled
    /\ registered = NoneRegistered
    /\ graph = "none"
    /\ pc = "END"
    /\ \E keys \in SUBSET Keys : state = [k \in keys |-> TRUE]
    /\ controller = NewController
    /\ step = 0
    /\ attempted = <<>>
    /\ outcomes = <<>>
    /\ pipeline_runs = 0
    /\ raises = 0
    /\ net = <<>>
    /\ sim = NoSim

\* controller.execute_pipeline_step(step_name, state)
ExecuteStepDirect ==
    /\ graph = "none" /\ controller.exists
    /\ Len(attempted) < MaxDirectSteps
    /\ \E name \in StepNames :
         \E result \in ToolResults(get_tool(tools, name), state, raises < MaxRaises) :
           \E r \in {execute_pipeline_step(tools, state, name, result)} :
              /\ state' = r.state
              /\ attempted' = Append(attempted, name)
              /\ outcomes' = Append(outcomes, r.outcome)
              /\ raises' = IF r.outcome = "raised" THEN raises + 1 ELSE raises
    /\ UNCHANGED <<graph, pc, controller, step, pipeline_runs, planvars, netvars>>

NextStep == ExecuteStepDirect

SpecStep == InitStep /\ [][NextStep]_vars

(***************************************************************************)
(* The dynamic graph: pipeline_executor -> controller -> CONTINUE | STOP   *)
(***************************************************************************)
RunsCap == 8

\* run_dynamic_analysis: initial_state, after create_dynamic_graph
InitDynamic ==
    /\ graph = "dynamic"
    /\ tools = discover_tools(<<>>)
    /\ goals = <<>>
    /\ available_data = {}
    /\ planres = NotCalled
    /\ registered = RecordAll(NoneRegistered, RealDefs)
    /\ pc = "pipeline_executor"
    /\ \E m \in 1..MaxCallerIterations :
          state = [k \in InitialKeys |->
                      CASE k = "max_iterations" -> m
                        [] k = "iteration" -> 0
                        [] k = "verbose" -> FALSE
                        [] OTHER -> "model.bnd"]
    /\ controller = NoController
    /\ step = 0
    /\ attempted = <<>>
    /\ outcomes = <<>>
    /\ pipeline_runs = 0
    /\ raises = 0
    /\ net = <<>>
    /\ sim = NoSim

\* pipeline_executor_node without the test of "next_pipeline" in the decision
pipeline_executor_setup_keep(reg, c, st) ==
    LET c0 == IF ~c.exists THEN NewController ELSE c
        st0 == IF ~c.exists THEN Put(st, "controller", TRUE) ELSE st
        c1 == IF c0.current_pipeline = <<>>
              THEN [c0 EXCEPT !.current_pipeline =
                                 create_initial_pipeline(reg, DOMAIN st0)]
              ELSE c0
    IN  [controller |-> c1, state |-> st0]

\* pipeline_executor_node, lines 109-123: the controller and the state once
\* the pipeline to run is chosen
pipeline_executor_setup(reg, c, st) ==
    LET c0 == IF ~c.exists THEN NewController ELSE c
        st0 == IF ~c.exists THEN Put(st, "controller", TRUE) ELSE st
        c1 == IF c0.current_pipeline = <<>>
              THEN [c0 EXCEPT !.current_pipeline =
                                 create_initial_pipeline(reg, DOMAIN st0)]
              ELSE c0
        decision == IF Has(st0, "controller_decision")
                    THEN st0["controller_decision"]
                    ELSE [has_next_pipeline |-> FALSE]
        c2 == IF decision.has_next_pipeline
              THEN [c1 EXCEPT !.current_pipeline = decision.next_pipeline]
              ELSE c1
    IN  [controller |-> c2, state |-> st0]

\* pipeline_executor_node, lines 109-123
PipelineExecutorEnter ==
    /\ graph = "dynamic" /\ pc = "pipeline_executor"
    /\ \E s \in {pipeline_executor_setup(tools, controller, state)} :
           /\ controller' = s.controller
           /\ state' = s.state
           \* an empty pipeline: line 130 returns at once, and the edge leads
           \* to the controller
           /\ pc' = IF s.controller.current_pipeline = <<>>
                    THEN "controller" ELSE "execute_step"
    /\ step' = 1
    /\ attempted' = <<>>
    /\ outcomes' = <<>>
    /\ pipeline_runs' = IF pipeline_runs < RunsCap THEN pipeline_runs + 1 ELSE RunsCap
    /\ UNCHANGED <<graph, raises, planvars, netvars>>

\* the node returning after the first turn of its loop
ExecutePipelineStepOnce ==
    /\ graph = "dynamic" /\ pc = "execute_step"
    /\ step <= Len(controller.current_pipeline)
    /\ \E name \in {controller.current_pipeline[step]} :
         \E result \in ToolResults(get_tool(tools, name), state, raises < MaxRaises) :
           \E r \in {execute_pipeline_step(tools, state, name, result)} :
              /\ state' = r.state
              /\ attempted' = Append(attempted, name)
              /\ outcomes' = Append(outcomes, r.outcome)
              /\ raises' = IF r.outcome = "raised" THEN raises + 1 ELSE raises
              /\ pc' = "controller"
    /\ step' = step + 1
    /\ UNCHANGED <<graph, controller, pipeline_runs, planvars, netvars>>

\* pipeline_executor_node, lines 126-130: one turn of the loop; after the
\* last one the node returns and the edge leads to the controller
ExecutePipelineStep ==
    /\ graph = "dynamic" /\ pc = "execute_step"
    /\ step <= Len(controller.current_pipeline)
    /\ \E name \in {controller.current_pipeline[step]} :
         \E result \in ToolResults(get_tool(tools, name), state, raises < MaxRaises) :
           \E r \in {execute_pipeline_step(tools, state, name, result)} :
              /\ state' = r.state
              /\ attempted' = Append(attempted, name)
              /\ outcomes' = Append(outcomes, r.outcome)
              /\ raises' = IF r.outcome = "raised" THEN raises + 1 ELSE raises
              /\ pc' = IF r.propagated THEN "FAILED"
                       ELSE IF step = Len(controller.current_pipeline)
                       THEN "controller"
                       ELSE "execute_step"
    /\ step' = step + 1
    /\ UNCHANGED <<graph, controller, pipeline_runs, planvars, netvars>>

\* dynamic_controller_node, lines 213-229: the controller, the decision and
\* the state returned
dynamic_controller_node(reg, c, st) ==
    LET c0 == IF ~c.exists THEN NewController ELSE c
        st0 == IF ~c.exists THEN Put(st, "controller", TRUE) ELSE st
        decision == should_continue_iteration(reg, c0, st0)
    IN  [controller |-> [c0 EXCEPT !.current_iteration = decision.iteration],
         decision |-> decision,
         state |-> Put(Put(st0, "controller_decision", decision),
                       "iteration", decision.iteration)]

\* dynamic_controller_node, then the conditional edge controller_decision
DynamicControllerNode ==
    /\ graph = "dynamic" /\ pc = "controller"
    /\ \E r \in {dynamic_controller_node(tools, controller, state)} :
           /\ controller' = r.controller
           /\ state' = r.state
           /\ pc' = IF r.decision.action = "CONTINUE" THEN "pipeline_executor" ELSE "END"
    /\ UNCHANGED <<graph, step, attempted, outcomes, pipeline_runs, raises, planvars, netvars>>

NextDynamic ==
    \/ PipelineExecutorEnter
    \/ ExecutePipelineStep
    \/ DynamicControllerNode

(***************************************************************************)
(* The fixed graph of agent/graph.py: load_model -> topology -> dynamics   *)
(* -> perturb -> validate -> controller -> topology | report -> END        *)
(***************************************************************************)
\* what the nodes' analyses can return
StaticPlausibilities == {60, 70, 90}
\* controller_node compares the number of unstable nodes with 5
StaticUnstableCounts == {5, 6}

NodeError == [error |-> TRUE, empty |-> FALSE]

DynamicsAnalyses ==
    {[error |-> FALSE, empty |-> FALSE, unstable_nodes |-> u, has_oscillations |-> o] :
        u \in StaticUnstableCounts, o \in BOOLEAN}

ValidationResults ==
    {[error |-> FALSE, empty |-> FALSE, plausibility_score |-> p, issues |-> l] :
        p \in StaticPlausibilities, l \in IssueLists}

\* "if x and not x.get('error')": a non-empty dict without an error entry
Usable(x) == ~x.empty /\ ~x.error

\* f"low_plausibility_score_{plausibility_score:.2f}", for hundredths 10..99
FormatScore(p) == "0." \o ToString(p)

\* iterations + 1
NextIterations(n) == n + 1

\* controller_node: the state it returns
controller_node(st) ==
    LET iterations == st["iterations"]
        max_iterations == st["max_iterations"]
        validate == st["validate"]
        dynamics == st["dynamics"]
        d == IF iterations >= max_iterations
             THEN [should_continue |-> FALSE, stop_reason |-> "max_iterations_reached",
                   loop_reason |-> ""]
             ELSE IF Usable(validate)
             THEN IF validate.plausibility_score >= 90 /\ Len(validate.issues) = 0
                  THEN [should_continue |-> FALSE,
                        stop_reason |-> "high_quality_achieved", loop_reason |-> ""]
                  ELSE IF validate.plausibility_score < 70
                  THEN [should_continue |-> TRUE,
                        stop_reason |-> "max_iterations_reached",
                        loop_reason |-> "low_plausibility_score_"
                                          \o FormatScore(validate.plausibility_score)]
                  ELSE IF Len(validate.issues) > 2
                  THEN [should_continue |-> TRUE,
                        stop_reason |-> "max_iterations_reached",
                        loop_reason |-> "many_issues_" \o ToString(Len(validate.issues))]
                  ELSE [should_continue |-> FALSE,
                        stop_reason |-> "acceptable_quality", loop_reason |-> ""]
             ELSE IF Usable(dynamics)
             THEN IF dynamics.unstable_nodes > 5
                  THEN [should_continue |-> TRUE,
                        stop_reason |-> "max_iterations_reached",
                        loop_reason |-> "too_many_unstable_nodes_"
                                          \o ToString(dynamics.unstable_nodes)]
                  ELSE IF dynamics.has_oscillations
                  THEN [should_continue |-> TRUE,
                        stop_reason |-> "max_iterations_reached",
                        loop_reason |-> "oscillations_detected"]
                  ELSE [should_continue |-> FALSE,
                        stop_reason |-> "stable_dynamics", loop_reason |-> ""]
             ELSE [should_continue |-> FALSE,
                   stop_reason |-> "no_analysis_available", loop_reason |-> ""]
    IN  Update(st, [should_continue |-> d.should_continue,
                    stop_reason |-> d.stop_reason,
                    loop_reason |-> d.loop_reason,
                    iterations |-> NextIterations(iterations)])

\* run_quality_analysis: initial_state
InitStatic ==
    /\ graph = "static"
    /\ tools = <<>>
    /\ goals = <<>>
    /\ available_data = {}
    /\ planres = NotCalled
    /\ registered = NoneRegistered
    /\ pc = "load_model"
    /\ \E m \in 1..MaxCallerIterations :
          state = [model_path |-> "model.bnd", max_iterations |-> m, iterations |-> 0,
                   should_continue |-> TRUE, model |-> "empty",
                   topology |-> "empty", dynamics |-> [error |-> FALSE, empty |-> TRUE],
                   perturb |-> "empty", validate |-> [error |-> FALSE, empty |-> TRUE],
                   stop_reason |-> "", loop_reason |-> "", report |-> "empty",
                   report_path |-> "", error |-> ""]
    /\ controller = NoController
    /\ step = 0
    /\ attempted = <<>>
    /\ outcomes = <<>>
    /\ pipeline_runs = 0
    /\ raises = 0
    /\ net = <<>>
    /\ sim = NoSim

StaticFrame == UNCHANGED <<graph, controller, step, planvars, netvars>>

\* a node whose analysis raised: the exception is caught in the node
NodeRaises(name) ==
    /\ raises < MaxRaises
    /\ raises' = raises + 1
    /\ attempted' = Append(attempted, name)
    /\ outcomes' = Append(outcomes, "raised")

NodeReturns(name, outcome) ==
    /\ raises' = raises
    /\ attempted' = Append(attempted, name)
    /\ outcomes' = Append(outcomes, outcome)

\* load_model_node
LoadModelNode ==
    /\ graph = "static" /\ pc = "load_model"
    /\ \/ /\ NodeReturns("load_model", "ok")
          /\ state' = Update(state, [model |-> "loaded", model_type |-> "bnd",
                                     bnd_network |-> TRUE])
       \/ /\ NodeRaises("load_model")
          /\ state' = Update(state, [model |-> "None", error |-> "error"])
    /\ pc' = "topology"
    /\ UNCHANGED pipeline_runs
    /\ StaticFrame

\* topology_node; the analysis pipeline of an iteration starts here
TopologyNode ==
    /\ graph = "static" /\ pc = "topology"
    /\ IF state["model"] # "loaded"
       THEN /\ NodeReturns("topology", "missing_requirements")
            /\ state' = Put(state, "topology", "error")
       ELSE \/ /\ NodeReturns("topology", "ok")
               /\ state' = Put(state, "topology", "ok")
            \/ /\ NodeRaises("topology")
               /\ state' = Put(state, "topology", "error")
    /\ pc' = "dynamics"
    /\ pipeline_runs' = IF pipeline_runs < RunsCap THEN pipeline_runs + 1 ELSE RunsCap
    /\ StaticFrame

\* dynamics_node
DynamicsNode ==
    /\ graph = "static" /\ pc = "dynamics"
    /\ IF state["model"] # "loaded"
       THEN /\ NodeReturns("dynamics", "missing_requirements")
            /\ state' = Put(state, "dynamics", NodeError)
       ELSE \/ /\ NodeReturns("dynamics", "ok")
               /\ \E a \in DynamicsAnalyses : state' = Put(state, "dynamics", a)
            \/ /\ NodeRaises("dynamics")
               /\ state' = Put(state, "dynamics", NodeError)
    /\ pc' = "perturb"
    /\ UNCHANGED pipeline_runs
    /\ StaticFrame

\* perturb_node
PerturbNode ==
    /\ graph = "static" /\ pc = "perturb"
    /\ IF state["model"] # "loaded"
       THEN /\ NodeReturns("perturb", "missing_requirements")
            /\ state' = Put(state, "perturb", "error")
       ELSE \/ /\ NodeReturns("perturb", "ok")
               /\ state' = Put(state, "perturb", "ok")
            \/ /\ NodeRaises("perturb")
               /\ state' = Put(state, "perturb", "error")
    /\ pc' = "validate"
    /\ UNCHANGED pipeline_runs
    /\ StaticFrame

\* validate_node
ValidateNode ==
    /\ graph = "static" /\ pc = "validate"
    /\ IF state["model"] # "loaded"
       THEN /\ NodeReturns("validate", "missing_requirements")
            /\ state' = Put(state, "validate", NodeError)
       ELSE \/ /\ NodeReturns("validate", "ok")
               /\ \E v \in ValidationResults : state' = Put(state, "validate", v)
            \/ /\ NodeRaises("validate")
               /\ state' = Put(state, "validate", NodeError)
    /\ pc' = "controller"
    /\ UNCHANGED pipeline_runs
    /\ StaticFrame

\* controller_node, then the conditional edge should_continue_analysis
ControllerNode ==
    /\ graph = "static" /\ pc = "controller"
    /\ state' = controller_node(state)
    /\ pc' = IF state'["should_continue"] THEN "topology" ELSE "report"
    /\ attempted' = <<>>
    /\ outcomes' = <<>>
    /\ UNCHANGED <<pipeline_runs, raises>>
    /\ StaticFrame

\* report_node, then the edge to END
ReportNode ==
    /\ graph = "static" /\ pc = "report"
    /\ \/ /\ NodeReturns("report", "ok")
          /\ state' = Update(state, [report |-> "ok", report_path |-> "report.yaml"])
       \/ /\ NodeRaises("report")
          /\ state' = Put(state, "report", "error")
    /\ pc' = "END"
    /\ UNCHANGED pipeline_runs
    /\ StaticFrame

NextStatic ==
    \/ LoadModelNode
    \/ TopologyNode
    \/ DynamicsNode
    \/ PerturbNode
    \/ ValidateNode
    \/ ControllerNode
    \/ ReportNode

(***************************************************************************)
(* Both control loops                                                      *)
(***************************************************************************)
Init == InitDynamic \/ InitStatic

Next == NextDynamic \/ NextStatic

Spec == Init /\ [][Next]_vars

\* every node returns, so a graph that can take a step takes it
\* a node is ready to run: the graph has not reached its end
Running == pc \notin {"END", "FAILED"}

\* The graph runner invokes the next node as soon as one returns: weak
\* fairness of Next, WF_vars(Next), with ENABLED <<Next>>_vars written out
\* as Running.
FairSpec == Spec /\ ([]<>(~Running) \/ []<><<Next>>_vars)

(***************************************************************************)
(* The simulation functions applied to a network                           *)
(***************************************************************************)
NodeNames == <<"A", "B", "C">>

\* rule texts: "", "A", "!B", "!C", "A&B", "B|C", and "!", which does not
\* compile
Rules ==
    {<<>>, <<"A">>, <<"!", "B">>, <<"!", "C">>,
     <<"A", "&", "B">>, <<"B", "|", "C">>, <<"!">>}

Absent(n) == [name |-> n, type |-> "absent", logic |-> <<>>, value |-> FALSE]

NodeChoices(n) ==
    {Absent(n)} \cup {InputNode(n, v) : v \in BOOLEAN}
                \cup {LogicNode(n, r) : r \in Rules}

\* {Input signal=true; Logic A:="signal"; Logic B:="!A"}
NetChain ==
    <<InputNode("signal", TRUE), LogicNode("A", <<"signal">>),
      LogicNode("B", <<"!", "A">>)>>

\* a network whose rules hold a constant and an identifier that names no node
NetConst ==
    <<InputNode("A", TRUE), LogicNode("B", <<"True", "&", "A">>),
      LogicNode("C", <<"ghost", "|", "B">>)>>

\* the networks over NodeNames, at least one node each, NetChain and NetConst
Networks ==
    ({SelectSeq(<<a, b, c>>, LAMBDA x : x.type # "absent") :
        a \in NodeChoices(NodeNames[1]), b \in NodeChoices(NodeNames[2]),
        c \in NodeChoices(NodeNames[3])} \ {<<>>}) \cup {NetChain, NetConst}

LogicNodes(model) == {model[i].name : i \in {j \in 1..Len(model) : model[j].type = "logic"}}

\* simulate_dynamics, lines 62-67: input nodes from the input condition,
\* logic nodes from random.choice([True, False])
TrialInitials(model) ==
    {st \in [NodeNamesOf(model) -> BOOLEAN] :
        \A i \in 1..Len(model) :
            model[i].type = "input" => st[model[i].name] = model[i].value}

InitNet ==
    /\ tools = <<>>
    /\ goals = <<>>
    /\ available_data = {}
    /\ planres = NotCalled
    /\ registered = NoneRegistered
    /\ graph = "none"
    /\ pc = "END"
    /\ state = <<>>
    /\ controller = NoController
    /\ step = 0
    /\ attempted = <<>>
    /\ outcomes = <<>>
    /\ pipeline_runs = 0
    /\ raises = 0
    /\ net \in Networks
    /\ sim = NoSim

\* analyze_perturbations, line 47: baseline_states = simulate_baseline(model)
SimulateBaseline ==
    /\ net # <<>> /\ sim.op = "none"
    /\ \E r \in {BaselineLoop(net, BaselineInitial(net))} :
          sim' = [NoSim EXCEPT !.op = "baseline", !.baseline = r.state,
                               !.final = r.state, !.updates = r.updates]
    /\ UNCHANGED <<net, planvars, loopvars>>

\* analyze_perturbations, line 61: test_knockout for a logic node
TestKnockout ==
    /\ sim.op = "baseline"
    /\ \E target_node \in LogicNodes(net) :
          \E r \in {test_knockout(net, target_node, sim.baseline)} :
             sim' = [sim EXCEPT !.op = "knockout", !.target = r.node,
                                !.final = r.final_states,
                                !.impact_score = r.impact_score,
                                !.affected_nodes = r.affected_nodes]
    /\ UNCHANGED <<net, planvars, loopvars>>

\* simulate_dynamics, lines 62-80: one trial
SimulateTrajectory ==
    /\ net # <<>> /\ sim.op = "none"
    /\ \E initial_state \in TrialInitials(net) :
          \E trajectory \in {simulate_single_trajectory(net, initial_state)} :
             sim' = [NoSim EXCEPT !.op = "trajectory",
                                  !.trajectory = trajectory,
                                  !.final = trajectory[Len(trajectory)],
                                  !.attractor = find_attractor(trajectory),
                                  !.has_oscillations = detect_oscillation(trajectory),
                                  !.unstable_nodes = find_unstable_nodes(trajectory)]
    /\ UNCHANGED <<net, planvars, loopvars>>

\* simulate_dynamics, lines 72-82: what one trial found in its trajectory
TrialResult(trajectory) ==
    [attractor |-> find_attractor(trajectory),
     oscillation |-> detect_oscillation(trajectory),
     unstable |-> find_unstable_nodes(trajectory)]

\* simulate_dynamics, lines 72-82: attractors.append(attractor) when there
\* is one, oscillation_detected = True, unstable_nodes.update(unstable)
CombineTrial(agg, res) ==
    [attractors |-> IF res.attractor # NoAttractor
                    THEN Append(agg.attractors, res.attractor)
                    ELSE agg.attractors,
     has_oscillations |-> agg.has_oscillations \/ res.oscillation,
     unstable_nodes |-> agg.unstable_nodes \cup res.unstable]

\* simulate_dynamics, lines 46-48: nothing collected yet
NoTrials == [attractors |-> <<>>, has_oscillations |-> FALSE, unstable_nodes |-> {}]

\* the per-trial results combined in the order of the sequence
RECURSIVE CombineAll(_, _)
CombineAll(agg, results) ==
    IF results = <<>> THEN agg
    ELSE CombineAll(CombineTrial(agg, Head(results)), Tail(results))

\* simulate_dynamics, lines 50-82: one turn of the loop over the simulations
DynamicsTrial ==
    /\ net # <<>> /\ sim.op \in {"none", "dynamics"}
    /\ sim.trials < NumSimulations
    /\ \E initial_state \in TrialInitials(net) :
          \E trajectory \in {simulate_single_trajectory(net, initial_state)} :
            \E agg \in {CombineTrial([attractors |-> sim.attractors,
                                      has_oscillations |-> sim.has_oscillations,
                                      unstable_nodes |-> sim.unstable_nodes],
                                     TrialResult(trajectory))} :
              sim' = [sim EXCEPT
                        !.op = "dynamics",
                        !.trials = @ + 1,
                        !.trajectory = trajectory,
                        !.final = trajectory[Len(trajectory)],
                        !.attractor = find_attractor(trajectory),
                        !.results = Append(@, TrialResult(trajectory)),
                        !.attractors = agg.attractors,
                        !.has_oscillations = agg.has_oscillations,
                        !.unstable_nodes = agg.unstable_nodes]
    /\ UNCHANGED <<net, planvars, loopvars>>

\* simulate_dynamics, lines 84-90: the result is returned
DynamicsReturn ==
    /\ sim.op = "dynamics" /\ sim.trials = NumSimulations
    /\ sim' = [sim EXCEPT !.op = "dynamics_done"]
    /\ UNCHANGED <<net, planvars, loopvars>>

\* analyze_perturbations: the whole analysis of the model
AnalyzePerturbations ==
    /\ net # <<>> /\ sim.op = "none"
    /\ \E r \in {analyze_perturbations(net)} :
          /\ net' = r.model
          /\ sim' = [NoSim EXCEPT !.op = "analysis",
                                   !.baseline = r.baseline_states,
                                   !.knockouts = r.knockouts,
                                   !.overexpressions = r.overexpressions,
                                   !.robust_nodes = r.robust_nodes,
                                   !.sensitive_nodes = r.sensitive_nodes]
    /\ UNCHANGED <<planvars, loopvars>>

\* topology_node: the graph of the model and its output nodes
TopologyNodeGraph ==
    /\ net # <<>> /\ sim.op = "none"
    /\ \E edges \in {TopologyEdges(net)} :
          sim' = [NoSim EXCEPT !.op = "topology",
                               !.edges = edges,
                               !.output_nodes = OutputNodes(net, edges)]
    /\ UNCHANGED <<net, planvars, loopvars>>

NextNet ==
    \/ SimulateBaseline
    \/ TestKnockout
    \/ SimulateTrajectory
    \/ AnalyzePerturbations
    \/ TopologyNodeGraph

SpecNet == InitNet /\ [][NextNet]_vars

\* {Logic A:="A"}: both states are fixed points
NetKeep == <<LogicNode("A", <<"A">>)>>

\* {Logic B:="!B"}: no fixed point
NetFlip == <<LogicNode("B", <<"!", "B">>)>>

\* the networks whose whole dynamics analysis is explored
DynNetworks ==
    {NetChain, NetKeep, NetFlip,
     <<InputNode("A", TRUE), LogicNode("B", <<"A">>)>>,
     <<InputNode("A", FALSE), LogicNode("B", <<"!", "B">>)>>}

InitDyn ==
    /\ tools = <<>>
    /\ goals = <<>>
    /\ available_data = {}
    /\ planres = NotCalled
    /\ registered = NoneRegistered
    /\ graph = "none"
    /\ pc = "END"
    /\ state = <<>>
    /\ controller = NoController
    /\ step = 0
    /\ attempted = <<>>
    /\ outcomes = <<>>
    /\ pipeline_runs = 0
    /\ raises = 0
    /\ net \in DynNetworks
    /\ sim = NoSim

NextDyn == DynamicsTrial \/ DynamicsReturn

SpecDyn == InitDyn /\ [][NextDyn]_vars

(***************************************************************************)
(* Claims about get_execution_plan                                         *)
(***************************************************************************)

\* C1: get_execution_plan selects no tool on behalf of a goal whose key is
\* already in the initial available keys, and returns an empty plan when
\* every goal is already available (also for the goal lists and state keys
\* adapt_pipeline passes).
C1_NoToolForAvailableGoal ==
    planres.called =>
        /\ \A i \in 1..Len(planres.plan) :
              planres.selected_for[i] \notin available_data
        /\ (Range(goals) \subseteq available_data => planres.plan = <<>>)

\* tool x requires an output of y and y requires an output of x
Cyclic(x, y) ==
    /\ x.name # y.name
    /\ x.input_requirements \cap y.output_provides # {}
    /\ y.input_requirements \cap x.output_provides # {}

\* nothing but x and y provides what x and y require
OnlyEachOther(x, y) ==
    \A i \in 1..Len(tools) :
        tools[i].name \notin {x.name, y.name} =>
            tools[i].output_provides
                \cap (x.input_requirements \cup y.input_requirements) = {}

Decision == state["controller_decision"]

Decided == graph = "dynamic" /\ Has(state, "controller_decision")

\* C3: every run of either control loop eventually reaches STOP (the graph
\* ends), whatever the tools return and however the quality is assessed.
C3_LoopTerminates == <>(pc = "END")

\* the dynamic loop stopped by its limit while iteration was still needed
C3_Witness ==
    /\ Decided /\ pc = "END"
    /\ Decision.quality_assessment.needs_iteration
    /\ controller.current_iteration = controller.max_iterations
    /\ pipeline_runs = DefaultMaxIterations

\* C4: with max_iterations = 1 the first decision of the controller is STOP
\* with reason "max_iterations_reached", whatever the quality is.
C4_LimitOneStopsAtOnce ==
    /\ (graph = "static" /\ state["max_iterations"] = 1 /\ state["iterations"] = 1)
          => /\ ~state["should_continue"]
             /\ state["stop_reason"] = "max_iterations_reached"
    /\ (Decided /\ controller.max_iterations = 1 /\ Decision.iteration = 1)
          => /\ Decision.action = "STOP"
             /\ Decision.reason = "max_iterations_reached"

\* C5: the analysis pipeline is started at most max_iterations times, the
\* value the caller passed to run_dynamic_analysis or run_quality_analysis.
C5_RunsWithinCallerLimit == pipeline_runs <= state["max_iterations"]

Failure == {"raised", "missing_requirements", "not_found"}

\* C6: a tool that raises or lacks a requirement does not end the EXECUTE
\* phase: the tools are attempted one by one in plan order, no exception
\* leaves the executor, and the controller runs when all were attempted.
C6_FailureDoesNotAbort ==
    graph = "dynamic" =>
        /\ pc # "FAILED"
        /\ pc = "execute_step" =>
              /\ step <= Len(controller.current_pipeline)
              /\ attempted = SubSeq(controller.current_pipeline, 1, step - 1)
        /\ (pc = "controller" /\ pipeline_runs > 0) =>
              attempted = controller.current_pipeline

\* the controller is reached after the loader raised and each of the five
\* tools after it was attempted and lacked its requirement
C6_Witness ==
    /\ graph = "dynamic" /\ pc = "controller"
    /\ Len(outcomes) = 6
    /\ outcomes[1] = "raised"
    /\ \A i \in 2..6 : outcomes[i] = "missing_requirements"

\* the keys under which a failure of `name` could be recorded
ErrorKeys(name) == {"error", "errors", name \o "_error", name \o "_errors"}

RecordsFailure(st, name) ==
    IF graph = "static"
    THEN CASE name = "load_model" -> st["error"] # ""
           [] name \in {"dynamics", "validate"} -> st[name].error
           [] OTHER -> st[name] = "error"
    ELSE \E key \in DOMAIN st : key \in ErrorKeys(name)

\* C7: when a tool step fails, the state it returns holds an error-tagged
\* entry for the failure.
C7_FailureRecorded ==
    (outcomes # <<>> /\ outcomes[Len(outcomes)] \in Failure)
        => RecordsFailure(state, attempted[Len(attempted)])

IterationCount ==
    IF graph = "dynamic" THEN controller.current_iteration ELSE state["iterations"]

\* C9: iteration_count grows by exactly 1 in every step of the controller
\* node and is left as it is by every other step.
C9_OneIncrementPerAssess ==
    [][IF pc = "controller"
       THEN IterationCount' = IterationCount + 1
       ELSE IterationCount' = IterationCount]_vars

\* an adapted plan is being executed after two assessments
C9_Witness ==
    /\ graph = "dynamic" /\ pc = "execute_step"
    /\ controller.current_iteration = 2
    /\ step > 1

\* C10: needs_iteration is true exactly when plausibility < 0.7, or there
\* are more than 2 issues, or unstable nodes / all nodes > 0.3; a term whose
\* data is not in the state (no validation results, no dynamics results, no
\* nodes) does not hold.
C10_NeedsIteration ==
    (Decided /\ pc \in {"pipeline_executor", "END"}) =>
        (Decision.quality_assessment.needs_iteration <=>
            \/ /\ Has(state, "validation_results")
               /\ state["validation_results"].biological_plausibility < 70
            \/ /\ Has(state, "validation_results")
               /\ Len(state["validation_results"].issues) > 2
            \/ /\ Has(state, "dynamics_results") /\ Has(state, "model_data")
               /\ state["model_data"].nodes > 0
               /\ 10 * state["dynamics_results"].unstable_nodes
                     > 3 * state["model_data"].nodes)

\* every boundary value at once: no iteration is asked for
C10_Witness ==
    /\ Decided /\ pc = "END"
    /\ Has(state, "validation_results") /\ Has(state, "dynamics_results")
    /\ state["validation_results"].biological_plausibility = 70
    /\ Len(state["validation_results"].issues) = 2
    /\ state["model_data"].nodes = 10
    /\ state["dynamics_results"].unstable_nodes = 3
    /\ ~Decision.quality_assessment.needs_iteration

(***************************************************************************)
(* Claims about the registry                                               *)
(***************************************************************************)
\* the requirement lists asked of a registry
Requests(reg) == (SUBSET Keys) \cup {{k} : k \in AllOutputs(reg)}

\* C11: the registry holds one definition per name, the one registered last
\* under it, and find_tools_for_requirements returns each name at most once
\* and only definitions registered last.
C11_LastWriteWins ==
    /\ \A i, j \in 1..Len(tools) : tools[i].name = tools[j].name => i = j
    /\ {tools[i].name : i \in 1..Len(tools)} = DOMAIN registered.last
    /\ \A i \in 1..Len(tools) : tools[i] = registered.last[tools[i].name]
    /\ \A reqs \in Requests(tools) :
          LET ts == find_tools_for_requirements(tools, reqs)
          IN  /\ \A i, j \in 1..Len(ts) : ts[i].name = ts[j].name => i = j
              /\ \A i \in 1..Len(ts) : ts[i] = registered.last[ts[i].name]

\* two tools are registered, one of them more than once, and both provide
\* the same key
C11_Witness ==
    /\ registered.overwrote
    /\ Len(tools) = 2
    /\ \E k \in Keys : Len(find_tools_for_requirements(tools, {k})) = 2

\* name a comes before name b, for the names of the generic definitions
NameBefore(a, b) == a = "A" /\ b = "B"

\* C12: find_tools_for_requirements returns the providers by priority
\* descending and, among equal priorities, by name ascending, whatever the
\* order of registration.
C12_TiesByName ==
    \A reqs \in Requests(tools) :
        LET ts == find_tools_for_requirements(tools, reqs)
        IN  \A i, j \in 1..Len(ts) :
                i < j =>
                    \/ ts[i].priority > ts[j].priority
                    \/ /\ ts[i].priority = ts[j].priority
                       /\ NameBefore(ts[i].name, ts[j].name)

\* the available_data lists asked of a registry
DataSets(reg) == {in[2] : in \in PlanInputs(reg)}

\* C13 as stated: can_execute_tool is true exactly when every input
\* requirement of the registered tool is in the available set.
C13_RequirementsOnly ==
    ~planres.called =>
    \A i \in 1..Len(tools), data \in DataSets(tools) :
        can_execute_tool(tools, tools[i].name, data)
            <=> tools[i].input_requirements \subseteq data

\* C13 amended: can_execute_tool is true exactly when the registered tool is
\* enabled and every input requirement of it is in the available set; it
\* is false for a disabled tool and for a name that is not registered.
C13_EnabledAndRequirements ==
    ~planres.called =>
    /\ \A i \in 1..Len(tools), data \in DataSets(tools) :
          can_execute_tool(tools, tools[i].name, data)
              <=> (tools[i].enabled /\ tools[i].input_requirements \subseteq data)
    /\ \A n \in ToolNames \cup {"bulk", "load_bnd_network"}, data \in DataSets(tools) :
          (\A i \in 1..Len(tools) : tools[i].name # n)
              => ~can_execute_tool(tools, n, data)

\* a disabled tool without requirements beside an enabled one with some
C13_Witness ==
    \E i, j \in 1..Len(tools) :
        /\ ~tools[i].enabled /\ tools[i].input_requirements = {}
        /\ tools[j].enabled /\ tools[j].input_requirements # {}

(***************************************************************************)
(* More claims about get_execution_plan                                    *)
(***************************************************************************)
\* how often name x occurs in the plan
Occurrences(x, plan) == Cardinality({i \in 1..Len(plan) : plan[i] = x})

\* C14: no tool is selected for a goal whose key an earlier selected tool
\* has already added to the available set, so a tool that provides two of
\* the goals is in the plan once (for goal lists without repeated goals).
C14_SideEffectGoals ==
    (planres.called /\ Cardinality(Range(goals)) = Len(goals)) =>
        /\ \A i, j \in 1..Len(planres.plan) :
              i < j => planres.selected_for[j]
                          \notin get_tool(tools, planres.plan[i]).output_provides
        /\ \A i \in 1..Len(tools) :
              Cardinality(Range(goals) \cap tools[i].output_provides) >= 2
                  => Occurrences(tools[i].name, planres.plan) <= 1

\* line 171, "return plan": the value get_execution_plan returned
Returned == planres.plan

\* the last pass selected no tool (lines 167-169)
Stalled == planres.called /\ planres.remaining_goals # <<>> /\ ~planres.progress_made

\* C15: when a pass selects no tool, the value returned holds the plan built
\* so far and the goals that remain unresolved.
C15_StallReturnsUnresolved ==
    Stalled =>
        /\ \A i \in 1..Len(planres.plan) : InSeq(planres.plan[i], Returned)
        /\ \A g \in Range(planres.remaining_goals) : InSeq(g, Returned)

(***************************************************************************)
(* Claims about adapt_pipeline and the state dict                          *)
(***************************************************************************)
\* the controller has just decided to continue: state is the state that
\* should_continue_iteration assessed, with the decision put into it
Continued == Decided /\ pc = "pipeline_executor" /\ Decision.action = "CONTINUE"

\* the goal list adapt_pipeline built for that decision
AdaptedGoals == additional_goals(assess_current_quality(state))

\* some issue of the assessment holds one of the words W
IssueSignal(W) ==
    \E i \in 1..Len(state["validation_results"].issues) :
        \E w \in W : Mentions(state["validation_results"].issues[i], w)

\* unstable nodes / all nodes > 0.3
RatioSignal ==
    /\ Has(state, "dynamics_results") /\ Has(state, "model_data")
    /\ state["model_data"].nodes > 0
    /\ 10 * state["dynamics_results"].unstable_nodes > 3 * state["model_data"].nodes

\* C16: the goals of adapt_pipeline are the deep-topology goal iff there is
\* a topology signal, the deep-dynamics goal iff there is a dynamics or
\* instability signal (an unstable ratio above the threshold included), the
\* deep-validation goal iff there is a biology or pathway signal, and then
\* always quality_validated and report_generated as the last two.
C16_AdaptGoals ==
    (Continued /\ Has(state, "validation_results")) =>
        LET gs == AdaptedGoals
        IN  /\ InSeq("topology_deep_analyzed", gs) <=> IssueSignal({"topology"})
            /\ InSeq("dynamics_deep_analyzed", gs)
                  <=> (IssueSignal({"dynamic", "unstable"}) \/ RatioSignal)
            /\ InSeq("biology_deep_validated", gs)
                  <=> IssueSignal({"biological", "pathway"})
            /\ Len(gs) >= 2
            /\ SubSeq(gs, Len(gs) - 1, Len(gs))
                  = <<"quality_validated", "report_generated">>

\* C17: no step removes a key of the state dict: the key set after a step
\* includes the key set before it.
C17_KeysOnlyGrow == [][DOMAIN state \subseteq DOMAIN state']_vars

\* the dynamic graph has ended after a second pipeline run: keys were added
\* by the tools and the controller, and validation_results was overwritten
C17_Witness ==
    /\ graph = "dynamic" /\ pc = "END"
    /\ pipeline_runs >= 2
    /\ InitialKeys \subseteq DOMAIN state
    /\ {"validation_results", "report_generated", "controller_decision"}
          \subseteq DOMAIN state

(***************************************************************************)
(* Claims about the simulation functions                                   *)
(***************************************************************************)
\* {Input A=true; Logic B:="A"}
NetCopy == <<InputNode("A", TRUE), LogicNode("B", <<"A">>)>>

\* C18: for {Input A=true; Logic B:="A"} simulate_baseline computes at most
\* 2 updates and returns the fixed point {A: true, B: true}.
C18_BaselineFixedPoint ==
    (net = NetCopy /\ sim.op = "baseline") =>
        /\ sim.final = ("A" :> TRUE @@ "B" :> TRUE)
        /\ sim.updates <= 2
        /\ UpdateStep(net, sim.final) = sim.final

\* the baseline of that network has been simulated, B having changed
C18_Witness ==
    /\ net = NetCopy /\ sim.op = "baseline"
    /\ sim.final["B"] # BaselineInitial(net)["B"]

\* {Logic B:="!C"; Logic C:="!B"}
NetToggle == <<LogicNode("B", <<"!", "C">>), LogicNode("C", <<"!", "B">>)>>

BothFalse == ("B" :> FALSE @@ "C" :> FALSE)

BothTrue == ("B" :> TRUE @@ "C" :> TRUE)

\* C19: for {Logic B:="!C"; Logic C:="!B"} started from {B: false, C: false}
\* the trajectory alternates between that state and {B: true, C: true}, the
\* attractor found is a limit cycle of period 2, and oscillation is detected.
C19_PeriodTwo ==
    (net = NetToggle /\ sim.op = "trajectory" /\ sim.trajectory[1] = BothFalse) =>
        /\ Len(sim.trajectory) = MaxSteps + 1
        /\ \A i \in 1..Len(sim.trajectory) :
              sim.trajectory[i] = IF i % 2 = 1 THEN BothFalse ELSE BothTrue
        /\ sim.attractor.type = "limit_cycle"
        /\ sim.attractor.period = 2
        /\ sim.has_oscillations

\* that trajectory has been simulated
C19_Witness ==
    /\ net = NetToggle /\ sim.op = "trajectory"
    /\ sim.trajectory[1] = BothFalse
    /\ sim.trajectory[2] = BothTrue

\* no other node's rule mentions x
Unreferenced(model, x) ==
    \A i \in 1..Len(model) : model[i].name # x => ~InSeq(x, model[i].logic)

\* C20: the knockout test of a logic node that no other node references
\* reports impact_score 0.0.
C20_UnreferencedKnockout ==
    (sim.op = "knockout" /\ Unreferenced(net, sim.target)) =>
        sim.impact_score[1] = 0

\* C21: for {Input signal=true; Logic A:="signal"; Logic B:="!A"} the
\* knockout test of A reports affected_nodes = {B} and impact_score = 0.5.
C21_KnockoutOfA ==
    (net = NetChain /\ sim.op = "knockout" /\ sim.target = "A") =>
        /\ sim.affected_nodes = {"B"}
        /\ 2 * sim.impact_score[1] = sim.impact_score[2]

ChainFixedPoint == ("signal" :> TRUE @@ "A" :> TRUE @@ "B" :> FALSE)

\* C22: for {Input signal=true; Logic A:="signal"; Logic B:="!A"} every
\* trial ends in the fixed point {signal: true, A: true, B: false}, and the
\* result of simulate_dynamics holds that fixed point as its single attractor.
C22_SingleFixedPoint ==
    (net = NetChain /\ sim.op \in {"dynamics", "dynamics_done"}) =>
        /\ sim.final = ChainFixedPoint
        /\ sim.attractor.type = "fixed_point"
        /\ sim.op = "dynamics_done" =>
              /\ Len(sim.attractors) = 1
              /\ sim.attractors[1].states = <<ChainFixedPoint>>

\* every order in which the nodes of the model can be visited
Orders(model) ==
    {o \in [1..Len(model) -> 1..Len(model)] :
        \A i, j \in 1..Len(model) : o[i] = o[j] => i = j}

\* the snapshots a simulation went through
Snapshots ==
    IF sim.op = "trajectory" THEN Range(sim.trajectory)
    ELSE IF sim.op \in {"baseline", "knockout"} THEN {sim.baseline, sim.final}
    ELSE {}

\* C23: in every simulation step the next value of every logic node comes
\* from the snapshot taken before the step, so the step gives the same state
\* for every order in which the nodes are visited.
C23_SnapshotUpdate ==
    \A current_state \in Snapshots : \A order \in Orders(net) :
        /\ VisitNodes(net, order, current_state, current_state)
              = UpdateStep(net, current_state)
        /\ \A i \in 1..Len(net) :
              net[i].type = "logic" =>
                 UpdateStep(net, current_state)[net[i].name]
                    = evaluate_logic_rule(net[i].logic, current_state)

\* a step in which a node and a node whose rule reads it both change
C23_Witness ==
    /\ sim.op = "trajectory" /\ Len(sim.trajectory) >= 2
    /\ \E i, j \in 1..Len(net) :
          /\ i < j
          /\ InSeq(net[i].name, net[j].logic)
          /\ sim.trajectory[2][net[i].name] # sim.trajectory[1][net[i].name]
          /\ sim.trajectory[2][net[j].name] # sim.trajectory[1][net[j].name]

(***************************************************************************)
(* Claims about the plans and their execution                              *)
(***************************************************************************)
\* the keys held before entry i of the plan runs, when every earlier tool
\* of the plan has produced its declared outputs
KeysBefore(i) ==
    available_data
        \cup UNION {get_tool(tools, planres.plan[j]).output_provides : j \in 1..(i-1)}

\* C24: every tool of a returned plan has its input requirements among the
\* initial available keys and the outputs of the tools before it in the plan,
\* so execute_pipeline_step finds every tool of the plan executable when the
\* tools before it have produced their declared outputs.
C24_PlanExecutable ==
    planres.called =>
        \A i \in 1..Len(planres.plan) :
            /\ get_tool(tools, planres.plan[i]).input_requirements \subseteq KeysBefore(i)
            /\ can_execute_tool(tools, planres.plan[i], KeysBefore(i))

\* a plan whose second tool needs what only the first one provides
C24_Witness ==
    /\ planres.called /\ Len(planres.plan) >= 2
    /\ ~(get_tool(tools, planres.plan[2]).input_requirements \subseteq available_data)
    /\ get_tool(tools, planres.plan[2]).input_requirements
          \subseteq get_tool(tools, planres.plan[1]).output_provides \cup available_data

\* some enabled provider of goal g can execute with the keys `data`
Resolvable(g, data) ==
    \E i \in 1..Len(tools) :
        /\ tools[i].enabled
        /\ g \in tools[i].output_provides
        /\ can_execute_tool(tools, tools[i].name, data)

\* C25: a goal is left unresolved only if no enabled provider of it can
\* execute with the initial keys and the outputs of the selected tools, for
\* any number of goals.
C25_ResolvesResolvable ==
    planres.called =>
        \A g \in Range(planres.remaining_goals) : ~Resolvable(g, planres.current_data)

\* the enabled providers of the goal of entry i that could execute when
\* entry i was selected
ExecutableProviders(i) ==
    {t \in Range(tools) :
        /\ t.enabled
        /\ planres.selected_for[i] \in t.output_provides
        /\ can_execute_tool(tools, t.name, KeysBefore(i))}

\* C26: the tool selected for a goal is one of its enabled executable
\* providers, and none of these has a higher priority.
C26_HighestPriorityExecutable ==
    planres.called =>
        \A i \in 1..Len(planres.plan) :
            /\ get_tool(tools, planres.plan[i]) \in ExecutableProviders(i)
            /\ \A t \in ExecutableProviders(i) :
                  t.priority <= get_tool(tools, planres.plan[i]).priority

\* two providers could execute, and the one registered later had the higher
\* priority and was selected
C26_Witness ==
    /\ planres.called /\ Len(planres.plan) >= 1 /\ Len(tools) = 2
    /\ Cardinality(ExecutableProviders(1)) = 2
    /\ tools[1].priority < tools[2].priority
    /\ planres.plan[1] = tools[2].name

\* the tool function was not called in the attempt that ended with `outcome`
NotInvoked(outcome) == outcome \in {"not_found", "missing_requirements"}

\* C27: execute_pipeline_step on a step whose tool is unknown, disabled or
\* lacks an input requirement in the state does not call the tool function
\* and returns the state with the same keys and values.
C27_SkippedStepKeepsState ==
    [][(/\ Len(attempted') = Len(attempted) + 1
        /\ ~can_execute_tool(tools, attempted'[Len(attempted')], DOMAIN state))
       => /\ state' = state
          /\ NotInvoked(outcomes'[Len(outcomes')])]_vars

\* an unknown step, then a disabled tool whose requirements the state holds
C27_Witness ==
    /\ graph = "none"
    /\ outcomes = <<"not_found", "missing_requirements">>
    /\ get_tool(tools, attempted[1]) = NoTool
    /\ get_tool(tools, attempted[2]) # NoTool
    /\ ~get_tool(tools, attempted[2]).enabled
    /\ get_tool(tools, attempted[2]).input_requirements \subseteq DOMAIN state
    /\ DOMAIN state # {}

\* C28: within an iteration the tools of the current plan are attempted one
\* at a time in plan order, and the controller assesses and decides only when
\* the last tool of the plan has been attempted.
C28_AssessAfterWholePlan ==
    [][graph = "dynamic" =>
         /\ (attempted' # attempted /\ attempted' # <<>>) =>
               /\ attempted' = SubSeq(controller.current_pipeline, 1, Len(attempted) + 1)
               /\ IterationCount' = IterationCount
               /\ Decided' = Decided
               /\ Decided => Decision' = Decision
         /\ (IterationCount' # IterationCount \/ Decided' # Decided) =>
               /\ pc = "controller"
               /\ attempted = controller.current_pipeline
               /\ attempted' = attempted]_vars

\* the controller is about to assess for the second time, after a plan of
\* several tools
C28_Witness ==
    /\ graph = "dynamic" /\ pc = "controller"
    /\ controller.current_iteration = 1
    /\ Len(controller.current_pipeline) >= 2
    /\ attempted = controller.current_pipeline

\* C29: a CONTINUE decision carries a next_pipeline and the next EXECUTE
\* phase runs exactly that plan; a STOP decision carries none and no tool is
\* executed after it.
C29_NextPipelineIsExecuted ==
    [][graph = "dynamic" =>
         /\ (Decided' /\ Decision'.action = "CONTINUE") =>
               /\ Decision'.has_next_pipeline
               /\ pc' \in {"pipeline_executor", "execute_step", "controller"}
               /\ pc' # "pipeline_executor" =>
                     controller'.current_pipeline = Decision'.next_pipeline
               /\ attempted' # attempted =>
                     attempted' = SubSeq(Decision'.next_pipeline, 1, Len(attempted'))
         /\ (Decided' /\ Decision'.action = "STOP") =>
               /\ ~Decision'.has_next_pipeline
               /\ pc' = "END"
               /\ attempted' = attempted]_vars

\* a plan that adapt_pipeline built, and that differs from the plan before
\* it, is being executed
C29_Witness ==
    /\ Decided /\ pc = "execute_step" /\ step > 1
    /\ Decision.action = "CONTINUE"
    /\ controller.current_pipeline = Decision.next_pipeline
    /\ controller.current_pipeline # create_initial_pipeline(tools, InitialKeys)
    /\ attempted = SubSeq(Decision.next_pipeline, 1, step - 1)

\* the names of the input nodes of the model
InputNodes(model) ==
    {model[i].name : i \in {j \in 1..Len(model) : model[j].type = "input"}}

\* the value the first input condition gives node n, False when it gives none
InputValue(model, n) == model[CHOOSE i \in 1..Len(model) : model[i].name = n].value

\* C30: in every snapshot of a trajectory every input node has the value of
\* the trial's initial state, which is the value of the input condition, or
\* false when the condition gives none.
C30_InputsFixed ==
    sim.op = "trajectory" =>
        \A i \in 1..Len(sim.trajectory) : \A n \in InputNodes(net) :
            /\ sim.trajectory[i][n] = sim.trajectory[1][n]
            /\ sim.trajectory[i][n] = InputValue(net, n)

\* a trajectory of several updates in which a logic node changed while an
\* input node held true
C30_Witness ==
    /\ sim.op = "trajectory" /\ Len(sim.trajectory) >= 3
    /\ \E n \in InputNodes(net) : sim.trajectory[Len(sim.trajectory)][n]
    /\ \E n \in LogicNodes(net) : sim.trajectory[2][n] # sim.trajectory[1][n]

(***************************************************************************)
(* Claims about the trials of the dynamics analysis                        *)
(***************************************************************************)
\* C31: a trial stops at the step whose next state was seen before: when it
\* equals the current state the attractor is a fixed point of period 1, when
\* it equals an earlier state the attractor is a limit cycle whose period is
\* the number of steps since that state first occurred.
C31_StopsAtRevisit ==
    sim.op = "trajectory" =>
        LET t == sim.trajectory
            len == Len(t)
        IN  /\ \A i, j \in 1..len : (i < j /\ t[i] = t[j]) => j = len
            /\ \A i \in 1..(len - 1) :
                  (t[i] = t[len] /\ \A k \in 1..(i - 1) : t[k] # t[len]) =>
                     IF i = len - 1
                     THEN sim.attractor.type = "fixed_point" /\ sim.attractor.period = 1
                     ELSE /\ sim.attractor.type = "limit_cycle"
                          /\ sim.attractor.period = len - i

\* C32: a trajectory holds at most max_steps snapshots.
C32_TrajectoryLength == sim.op = "trajectory" => Len(sim.trajectory) <= MaxSteps

\* the transitions of trajectory t in which node n changed
Changes(t, n) == Cardinality({i \in 2..Len(t) : t[i][n] # t[i-1][n]})

\* C33: a trial contributes a node to the instability set exactly when its
\* trajectory has at least 5 snapshots and the node changed in more than 20%
\* of the transitions (5 * changes > snapshots - 1).
C33_UnstableByTransitions ==
    sim.op = "trajectory" =>
        sim.unstable_nodes =
            {n \in NodeNamesOf(net) :
                /\ Len(sim.trajectory) >= 5
                /\ 5 * Changes(sim.trajectory, n) > Len(sim.trajectory) - 1}

\* C34: has_oscillations is true exactly when some trial ended in a limit
\* cycle; it is false when every trial ended in a fixed point.
C34_OscillationIffLimitCycle ==
    sim.op = "dynamics_done" =>
        (sim.has_oscillations <=>
            \E i \in 1..Len(sim.results) : sim.results[i].attractor.type = "limit_cycle")

\* the sequence with its entries i and i + 1 exchanged
SwapAt(seq, i) ==
    [k \in 1..Len(seq) |->
        IF k = i THEN seq[i + 1] ELSE IF k = i + 1 THEN seq[i] ELSE seq[k]]

\* what simulate_dynamics returns of its aggregation
Aggregated ==
    [attractors |-> sim.attractors, has_oscillations |-> sim.has_oscillations,
     unstable_nodes |-> sim.unstable_nodes]

\* C36: the aggregated result is the same for every order in which the
\* results of the trials are combined (every order is a chain of exchanges
\* of two neighbours).
C36_OrderIndependent ==
    sim.op = "dynamics_done" =>
        /\ Aggregated = CombineAll(NoTrials, sim.results)
        /\ \A i \in 1..(Len(sim.results) - 1) :
              CombineAll(NoTrials, SwapAt(sim.results, i)) = Aggregated

(***************************************************************************)
(* Claims about the perturbation analysis and the topology graph           *)
(***************************************************************************)

\* C39: the knockout and overexpression tests of the analysis leave the
\* model and the baseline state as they were, so the two results of every
\* logic node are those of the tests run on the original model alone,
\* whatever nodes were tested before it.
C39_TestsLeaveModel ==
    [][sim'.op = "analysis" =>
        LET baseline_states == simulate_baseline(net)
            logic_nodes == LogicNodeList(net)
        IN  /\ net' = net
            /\ sim'.baseline = baseline_states
            /\ Len(sim'.knockouts) = Len(logic_nodes)
            /\ Len(sim'.overexpressions) = Len(logic_nodes)
            /\ \A i \in 1..Len(logic_nodes) :
                  /\ sim'.knockouts[i] =
                        test_knockout(net, logic_nodes[i], baseline_states)
                  /\ sim'.overexpressions[i] =
                        test_overexpression(net, logic_nodes[i], baseline_states)]_vars

\* an analysis of two logic nodes or more in which the first test changed
\* the value of some node
C39_Witness ==
    /\ sim.op = "analysis"
    /\ Len(sim.knockouts) >= 2
    /\ \E i \in 1..Len(sim.knockouts) :
          sim.knockouts[i].affected_nodes # {}
              \/ sim.overexpressions[i].affected_nodes # {}

\* the edges the statement describes: from every node an identifier of the
\* rule of another, logic, node names
EdgesBetweenDistinct ==
    {e \in NodeNamesOf(net) \X NodeNamesOf(net) :
        /\ e[1] # e[2]
        /\ \E i \in 1..Len(net) :
              /\ net[i].name = e[2] /\ net[i].type = "logic"
              /\ InSeq(e[1], net[i].logic)}

\* C40: the graph has an edge dep -> node exactly for the identifiers of the
\* rule of a logic node that name another node of the model, and the nodes
\* reported as outputs are the nodes without outgoing edge.
C40_EdgesAndOutputs ==
    sim.op = "topology" =>
        /\ sim.edges = EdgesBetweenDistinct
        /\ Range(sim.output_nodes) =
              {n \in NodeNamesOf(net) : \A e \in sim.edges : e[1] # n}

(***************************************************************************)
(* The perturbation tool of the dynamic pipeline,                          *)
(* agent/tools/test_perturbations.py.  An impact is the fraction           *)
(* <<numerator, denominator>>.                                             *)
(***************************************************************************)

\* the calls of the tool on one model that are explored
MaxToolRuns == 2

\* random.uniform(0.8, 1.2), in hundredths: the two ends and the middle
Factors == {80, 100, 120}

\* simulate_perturbation, lines 150-156: the logic nodes whose rule holds
\* the name of the target
dependent_count(model, target_node) ==
    Cardinality({i \in 1..Len(model) :
        model[i].type = "logic" /\ InSeq(target_node, model[i].logic)})

total_logic_nodes(model) ==
    Cardinality({i \in 1..Len(model) : model[i].type = "logic"})

\* simulate_perturbation: min(1.0, base_impact * random_factor), the same
\* for both kinds of perturbation
simulate_perturbation(target_node, model, random_factor) ==
    IF total_logic_nodes(model) = 0 THEN <<0, 1>>
    ELSE IF dependent_count(model, target_node) * random_factor
              > total_logic_nodes(model) * 100
         THEN <<1, 1>>
         ELSE <<dependent_count(model, target_node) * random_factor,
                total_logic_nodes(model) * 100>>

\* total_impact = knockout_impact + overexpression_impact
TotalImpact(ko, oe) == <<ko[1] * oe[2] + oe[1] * ko[2], ko[2] * oe[2]>>

\* total_impact < 0.2
LowImpact(total) == 5 * total[1] < total[2]

\* total_impact > 0.8
HighImpact(total) == 5 * total[1] > 4 * total[2]

\* the networks the tool is run on
ToolNetworks ==
    {NetChain, NetToggle, NetKeep, NetConst,
     <<InputNode("A", TRUE)>>,
     <<LogicNode("A", <<"A", "|", "B">>), LogicNode("B", <<"A">>)>>}

InitTool ==
    /\ tools = <<>>
    /\ goals = <<>>
    /\ available_data = {}
    /\ planres = NotCalled
    /\ registered = NoneRegistered
    /\ graph = "none"
    /\ pc = "END"
    /\ state = <<>>
    /\ controller = NoController
    /\ step = 0
    /\ attempted = <<>>
    /\ outcomes = <<>>
    /\ pipeline_runs = 0
    /\ raises = 0
    /\ net \in ToolNetworks
    /\ sim = NoSim

\* execute / test_network_perturbations, lines 104-110: a call of the tool
\* on the model; previous keeps what the call before returned
ToolExecute ==
    /\ \/ sim.op = "none"
       \/ sim.op = "tool_done" /\ sim.runs < MaxToolRuns
    /\ sim' = [NoSim EXCEPT
                  !.op = "tool_running",
                  !.runs = sim.runs + 1,
                  !.previous =
                      [knockout_results |-> sim.knockout_results,
                       overexpression_results |-> sim.overexpression_results,
                       robust_nodes |-> sim.robust_nodes,
                       sensitive_nodes |-> sim.sensitive_nodes]]
    /\ UNCHANGED <<net, planvars, loopvars>>

\* test_network_perturbations, lines 113-129: one turn of the loop over the
\* logic nodes, with the two values random.uniform returns
ToolTestNode ==
    /\ sim.op = "tool_running"
    /\ sim.position < Len(LogicNodeList(net))
    /\ \E ko_factor \in Factors, oe_factor \in Factors :
          LET node == LogicNodeList(net)[sim.position + 1]
              knockout_impact == simulate_perturbation(node, net, ko_factor)
              overexpression_impact == simulate_perturbation(node, net, oe_factor)
              total_impact == TotalImpact(knockout_impact, overexpression_impact)
          IN  sim' = [sim EXCEPT
                  !.position = sim.position + 1,
                  !.knockout_results = Append(@, knockout_impact),
                  !.overexpression_results = Append(@, overexpression_impact),
                  !.robust_nodes =
                      IF LowImpact(total_impact) THEN Append(@, node) ELSE @,
                  !.sensitive_nodes =
                      IF ~LowImpact(total_impact) /\ HighImpact(total_impact)
                      THEN Append(@, node) ELSE @]
    /\ UNCHANGED <<net, planvars, loopvars>>

\* test_network_perturbations, lines 131-138: the return after the last node
ToolReturn ==
    /\ sim.op = "tool_running"
    /\ sim.position = Len(LogicNodeList(net))
    /\ sim' = [sim EXCEPT !.op = "tool_done"]
    /\ UNCHANGED <<net, planvars, loopvars>>

NextTool == ToolExecute \/ ToolTestNode \/ ToolReturn

SpecTool == InitTool /\ [][NextTool]_vars

(***************************************************************************)
(* Claims about the perturbation tool                                      *)
(***************************************************************************)

\* C35: two runs of the perturbation analysis on the same model return the
\* same impact score for every node and both kinds of perturbation.
C35_Reproducible ==
    (sim.op = "tool_done" /\ sim.runs >= 2) =>
        /\ sim.knockout_results = sim.previous.knockout_results
        /\ sim.overexpression_results = sim.previous.overexpression_results

\* the fraction of the nodes whose final value differs from the baseline
\* when the node is knocked out, and when it is overexpressed
KnockoutFraction(target_node) ==
    test_knockout(net, target_node, simulate_baseline(net)).impact_score

OverexpressionFraction(target_node) ==
    test_overexpression(net, target_node, simulate_baseline(net)).impact_score

\* a = b, for fractions
SameFraction(a, b) == a[1] * b[2] = b[1] * a[2]

\* C37: every impact score is the number of nodes whose final value differs
\* from the unperturbed baseline divided by the number of nodes, and lies
\* between 0 and 1.
C37_ImpactIsChangedFraction ==
    sim.op = "tool_done" =>
        \A i \in 1..Len(sim.knockout_results) :
            LET node == LogicNodeList(net)[i]
                ko == sim.knockout_results[i]
                oe == sim.overexpression_results[i]
            IN  /\ \E changed \in {KnockoutFraction(node)} : SameFraction(ko, changed)
                /\ \E changed \in {OverexpressionFraction(node)} :
                      SameFraction(oe, changed)
                /\ 0 <= ko[1] /\ ko[1] <= ko[2]
                /\ 0 <= oe[1] /\ oe[1] <= oe[2]

\* C38: a logic node is robust exactly when both its scores are below 0.1,
\* sensitive exactly when it is not robust and one of its scores is above
\* 0.5, and no node is in both lists.
C38_Classification ==
    sim.op = "tool_done" =>
        \A i \in 1..Len(sim.knockout_results) :
            LET node == LogicNodeList(net)[i]
                ko == sim.knockout_results[i]
                oe == sim.overexpression_results[i]
                robust == BelowTenth(ko) /\ BelowTenth(oe)
            IN  /\ InSeq(node, sim.robust_nodes) <=> robust
                /\ InSeq(node, sim.sensitive_nodes) <=>
                      (~robust /\ (AboveHalf(ko) \/ AboveHalf(oe)))
                /\ ~(InSeq(node, sim.robust_nodes)
                        /\ InSeq(node, sim.sensitive_nodes))

====
